---- MODULE Spec2Model ----
(***************************************************************************)
(* The package name resolution engine of clearlinux2gentoo                 *)
(* (src/save_mapping.py): the lookup index PackageMatcher builds from the  *)
(* Gentoo catalog, and map_package, which resolves one Clear Linux name    *)
(* through the override table, the index and the prefix rules.             *)
(*                                                                         *)
(* Python values are modelled as follows.  A str is a TLA+ string, with    *)
(* slicing, concatenation, startswith and lower computed character by      *)
(* character.  A dict is a function whose DOMAIN is its key set; a list is *)
(* a sequence; Optional[T] is None or Some(v).  A confidence is kept in    *)
(* thousandths (1.0 is 1000, 0.8 is 800, round(1/3, 3) is 333).            *)
(***************************************************************************)
EXTENDS Integers, Sequences, FiniteSets, TLC

VARIABLES
    category_to_pkgs,  \* main: gentoo_packages, the dict category -> set of names
    built,             \* whether PackageMatcher.__init__ has run
    matcher,           \* main: matcher, the three tables of the PackageMatcher
    pkg_name,          \* the argument of the last map_package call (None before)
    result,            \* the dict the last map_package call returned
    clearlinux_packages, \* main: clearlinux_packages, the set of source names
    pc                 \* main: the statement that runs next

\* extract_package_info on its own: its argument and what it returned.
VARIABLES
    rule_input,
    rule_output

\* main of save_mapping.py: the files it reads and writes, and its dict.
VARIABLES
    gentoo_file,       \* data/gentoo_pkgs.txt: None (missing) or Some(lines)
    clearlinux_file,   \* data/clearlinux_pkgs.txt: None (missing) or Some(lines)
    output_file,       \* data/pkg_mapping.json: None (absent) or Some(records)
    mapping_results    \* main: mapping_results

\* main of util_scripts/save_mapping.py.
VARIABLES
    clear_linux_packages, \* the list of source names, repeats included
    gentoo_by_category,   \* the catalog, a list of <<category, set of names>>
    cpu_cores,            \* max(1, int((os.cpu_count() or 1) * 0.75))
    chunks,               \* the slices of clear_linux_packages
    pending,              \* the futures as_completed has not yet yielded
    par_mapping_results,  \* mapping_results of this main
    par_pc                \* the statement of this main that runs next

\* clone_clearlinux_repos.py: clone_repositories, its thread pool, the
\* signal handler, and the package directories that outlive a run.
VARIABLES
    pkg_names,         \* the package names to clone, in submission order
    clone_pc,          \* the statement of the main thread that runs next
    submitted,         \* how many executor.submit calls have returned
    collected,         \* how many futures the result loop is done with
    future_state,      \* per future: PENDING, RUNNING, CANCELLED or FINISHED
    work_queue,        \* the work items no worker has taken yet
    worker_item,       \* per worker thread: the work item it holds, or 0
    futures_to_cancel, \* the global set of that name
    executor,          \* the global: None, "open" or "shutdown"
    clone_results,     \* clone_repositories: results
    repo_dirs,         \* the package directories that exist under output_dir
    attempts,          \* per package: how each clone_repository call ended
    clone_run,         \* the number of the current run of main
    handler_ran        \* whether signal_handler has run in this run

\* fetch_clearlinux_pkgs.py: get_clearlinux_packages.
VARIABLES
    page,              \* the page number asked for next
    fetched,           \* packages: the names gathered so far
    fetch_pc,          \* "loop" until get_clearlinux_packages returns
    response,          \* what the last fetch_repositories_page returned
    appended           \* the page numbers whose names were appended, in order

\* options_parser.py: main and the package.env files.
VARIABLES
    options_conf_files, \* the sections of each options.conf found, in walk order
    package_env,        \* per package.env file name: its lines
    opt_pc,             \* the statement of main that runs next
    opt_next,           \* the index of the options.conf processed next
    opt_run,            \* the number of the current run of main
    opt_written,        \* the files the last process_package_env_entries wrote to
    opt_returned,       \* what it returned: None before the first call
    opt_appended,       \* per package.env file name: the lines this run appended
    opt_io_error        \* whether an append of this run raised IOError

engineVars ==
    <<category_to_pkgs, built, matcher, pkg_name, result, clearlinux_packages, pc>>
ruleVars == <<rule_input, rule_output>>
fileVars == <<gentoo_file, clearlinux_file, output_file, mapping_results>>
parVars ==
    <<clear_linux_packages, gentoo_by_category, cpu_cores, chunks, pending,
      par_mapping_results, par_pc>>

cloneVars ==
    <<pkg_names, clone_pc, submitted, collected, future_state, work_queue,
      worker_item, futures_to_cancel, executor, clone_results, repo_dirs,
      attempts, clone_run, handler_ran>>
fetchVars == <<page, fetched, fetch_pc, response, appended>>
optVars ==
    <<options_conf_files, package_env, opt_pc, opt_next, opt_run, opt_written,
      opt_returned, opt_appended, opt_io_error>>

\* The mapper programs and the three tools around them.
mapperVars == <<engineVars, ruleVars, fileVars, parVars>>
toolVars == <<cloneVars, fetchVars, optVars>>

vars == <<mapperVars, toolVars>>

----------------------------------------------------------------------------
(* Bounds of the model *)

\* The catalog holds at most MaxEntries category/package lines.
MaxEntries == 3

\* The categories a catalog of the model may use: two listed in
\* CATEGORY_PRIORITY (dev-libs 30; dev-java 330, which the rules "mvn-" and
\* "jdk-" require), one non-optimizable (virtual) and two that
\* CATEGORY_PRIORITY does not list (dev-qt, dev-rust).
Categories == {"dev-libs", "dev-java", "virtual", "dev-qt", "dev-rust"}

\* The package names a catalog of the model may use.
CatalogPkgs == {"xz", "Foo", "foo", "mvn-foo"}

\* The Clear Linux names map_package is called with.
SourceNames ==
    {"xz", "XZ", "foo", "FOO", "mvn-foo", "mvn-xz", "bar", "mvn-bar"}

----------------------------------------------------------------------------
(* Python values *)

None == [tag |-> "None"]
Some(v) == [tag |-> "Some", val |-> v]

\* dict.get(k, default)
DictGet(d, k, default) == IF k \in DOMAIN d THEN d[k] ELSE default

\* d[k] = v
DictSet(d, k, v) == [x \in (DOMAIN d) \cup {k} |-> IF x = k THEN v ELSE d[x]]

\* s[n:]
StrFrom(s, n) == SubSeq(s, n + 1, Len(s))

\* s.startswith(p)
StartsWith(s, p) == Len(p) <= Len(s) /\ SubSeq(s, 1, Len(p)) = p

\* str.lower() of the ASCII capitals
UpperToLower ==
    ("A" :> "a") @@ ("B" :> "b") @@ ("C" :> "c") @@ ("D" :> "d") @@ ("E" :> "e") @@ ("F" :> "f")
    @@ ("G" :> "g") @@ ("H" :> "h") @@ ("I" :> "i") @@ ("J" :> "j") @@ ("K" :> "k") @@ ("L" :> "l")
    @@ ("M" :> "m") @@ ("N" :> "n") @@ ("O" :> "o") @@ ("P" :> "p") @@ ("Q" :> "q") @@ ("R" :> "r")
    @@ ("S" :> "s") @@ ("T" :> "t") @@ ("U" :> "u") @@ ("V" :> "v") @@ ("W" :> "w") @@ ("X" :> "x")
    @@ ("Y" :> "y") @@ ("Z" :> "z")

\* str.lower() of one character
LowerChar(c) == IF c \in DOMAIN UpperToLower THEN UpperToLower[c] ELSE c

\* str.lower()
RECURSIVE Lower(_)
Lower(s) ==
    IF s = "" THEN ""
    ELSE LowerChar(SubSeq(s, 1, 1)) \o Lower(StrFrom(s, 1))

\* The value of an ASCII decimal digit.
DigitValue ==
    ("0" :> 0) @@ ("1" :> 1) @@ ("2" :> 2) @@ ("3" :> 3) @@ ("4" :> 4)
    @@ ("5" :> 5) @@ ("6" :> 6) @@ ("7" :> 7) @@ ("8" :> 8) @@ ("9" :> 9)

\* str.isdigit() on ASCII text: not empty and digits only.
isdigit(s) ==
    s # "" /\ \A i \in 1..Len(s) : SubSeq(s, i, i) \in DOMAIN DigitValue

\* int(s) for a string of decimal digits.
RECURSIVE int(_)
int(s) ==
    IF s = "" THEN 0
    ELSE 10 * int(SubSeq(s, 1, Len(s) - 1)) + DigitValue[SubSeq(s, Len(s), Len(s))]

\* Truth value of an Optional[str]: None and "" are false.
TruthyStr(o) == o # None /\ o.val # ""

\* ord(c) of the characters of package names and paths
CodePoint ==
    (" " :> 32) @@ ("+" :> 43) @@ ("-" :> 45) @@ ("." :> 46) @@ ("/" :> 47) @@ ("0" :> 48) @@ ("1" :> 49)
    @@ ("2" :> 50) @@ ("3" :> 51) @@ ("4" :> 52) @@ ("5" :> 53) @@ ("6" :> 54) @@ ("7" :> 55)
    @@ ("8" :> 56) @@ ("9" :> 57) @@ ("A" :> 65) @@ ("B" :> 66) @@ ("C" :> 67) @@ ("D" :> 68)
    @@ ("E" :> 69) @@ ("F" :> 70) @@ ("G" :> 71) @@ ("H" :> 72) @@ ("I" :> 73) @@ ("J" :> 74)
    @@ ("K" :> 75) @@ ("L" :> 76) @@ ("M" :> 77) @@ ("N" :> 78) @@ ("O" :> 79) @@ ("P" :> 80)
    @@ ("Q" :> 81) @@ ("R" :> 82) @@ ("S" :> 83) @@ ("T" :> 84) @@ ("U" :> 85) @@ ("V" :> 86)
    @@ ("W" :> 87) @@ ("X" :> 88) @@ ("Y" :> 89) @@ ("Z" :> 90) @@ ("_" :> 95) @@ ("a" :> 97)
    @@ ("b" :> 98) @@ ("c" :> 99) @@ ("d" :> 100) @@ ("e" :> 101) @@ ("f" :> 102) @@ ("g" :> 103)
    @@ ("h" :> 104) @@ ("i" :> 105) @@ ("j" :> 106) @@ ("k" :> 107) @@ ("l" :> 108) @@ ("m" :> 109)
    @@ ("n" :> 110) @@ ("o" :> 111) @@ ("p" :> 112) @@ ("q" :> 113) @@ ("r" :> 114) @@ ("s" :> 115)
    @@ ("t" :> 116) @@ ("u" :> 117) @@ ("v" :> 118) @@ ("w" :> 119) @@ ("x" :> 120) @@ ("y" :> 121)
    @@ ("z" :> 122)

\* a < b for two str: the order of the code points at the first difference,
\* a proper prefix being smaller.
RECURSIVE StrLess(_, _)
StrLess(a, b) ==
    IF b = "" THEN FALSE
    ELSE IF a = "" THEN TRUE
    ELSE IF SubSeq(a, 1, 1) = SubSeq(b, 1, 1)
         THEN StrLess(StrFrom(a, 1), StrFrom(b, 1))
         ELSE CodePoint[SubSeq(a, 1, 1)] < CodePoint[SubSeq(b, 1, 1)]

\* str.strip() for names padded with blanks
RECURSIVE Strip(_)
Strip(s) ==
    IF s = "" THEN ""
    ELSE IF SubSeq(s, 1, 1) = " " THEN Strip(StrFrom(s, 1))
    ELSE IF SubSeq(s, Len(s), Len(s)) = " " THEN Strip(SubSeq(s, 1, Len(s) - 1))
    ELSE s

\* The positions of "/" in s
Slashes(s) == {i \in 1..Len(s) : SubSeq(s, i, i) = "/"}

\* s.split("/", 1): one piece when s has no "/", else the pieces before and
\* after the first one.
SplitOnce(s) ==
    IF Slashes(s) = {} THEN <<s>>
    ELSE LET first == CHOOSE i \in Slashes(s) : \A j \in Slashes(s) : i <= j
         IN  <<SubSeq(s, 1, first - 1), StrFrom(s, first)>>

----------------------------------------------------------------------------
(* The data tables *)

DEFAULT_LOWEST_PRIORITY == 999

\* src/save_mapping.py:26-40
NON_OPTIMIZABLE_CATEGORIES ==
    { "acct-group",
      "acct-user",
      "app-alternatives",
      "app-dicts",
      "app-doc",
      "app-emacs",
      "app-vim",
      "app-voices",
      "app-xemacs",
      "media-fonts",
      "sec-keys",
      "virtual",
      "x11-themes" }

\* src/save_mapping.py:43-125 (a dict: key :> value)
MANUAL_PKG_OVERRIDES ==
    ("SDL" :> "media-libs/libsdl")
    @@ ("fmt" :> "dev-libs/libfmt")
    @@ ("httpd" :> "www-servers/apache")
    @@ ("intel-media-driver" :> "media-libs/libva-intel-media-driver")
    @@ ("intel-hybrid-driver" :> "media-libs/intel-hybrid-codec-driver")
    @@ ("CGNS" :> "sci-libs/cgnslib")
    @@ ("Linux-PAM" :> "sys-libs/pam")
    @@ ("FreeRDP2" :> "net-misc/freerdp")
    @@ ("awesome-wm" :> "x11-wm/awesome")
    @@ ("bind-utils" :> "net-dns/bind-tools")
    @@ ("boinc-client" :> "sci-misc/boinc")
    @@ ("ghostscript" :> "app-text/ghostscript-gpl")
    @@ ("graphite" :> "media-gfx/graphite2")
    @@ ("gtk4" :> "gui-libs/gtk")
    @@ ("gtk3" :> "x11-libs/gtk+")
    @@ ("gtkspell3" :> "app-text/gtkspell")
    @@ ("lcms2" :> "media-libs/lcms")
    @@ ("taskwarrior" :> "app-misc/task")
    @@ ("thermal_daemon" :> "sys-power/thermald")
    @@ ("udisks2" :> "sys-fs/udisks")
    @@ ("v4l-utils" :> "media-libs/libv4l")
    @@ ("webkitgtk" :> "net-libs/webkit-gtk")
    @@ ("xz" :> "app-arch/xz-utils")
    @@ ("wine" :> "app-emulation/wine-vanilla")
    @@ ("ntfs-3g" :> "sys-fs/ntfs3g")
    @@ ("mesa-clc" :> "dev-util/mesa_clc")
    @@ ("mediasdk" :> "media-libs/intel-mediasdk")
    @@ ("intel-gmmlib" :> "media-libs/gmmlib")
    @@ ("icu4c" :> "dev-libs/icu")
    @@ ("WireGuard" :> "net-vpn/wireguard-tools")
    @@ ("procps-ng" :> "sys-process/procps")
    @@ ("utf8proc" :> "dev-libs/libutf8proc")
    @@ ("xapian-core" :> "dev-libs/xapian")
    @@ ("raptor2" :> "media-libs/raptor")
    @@ ("pcre" :> "dev-libs/libpcre")
    @@ ("pcre2" :> "dev-libs/libpcre2")
    @@ ("openal-soft" :> "media-libs/openal")
    @@ ("qcoro6" :> "dev-libs/qcoro")
    @@ ("msgpack-c" :> "dev-libs/msgpack")
    @@ ("librtlsdr" :> "net-wireless/rtl-sdr")
    @@ ("gtk-plus" :> "x11-libs/gtk+")
    @@ ("SDL2" :> "media-libs/libsdl2")
    @@ ("SDL2_gfx" :> "media-libs/sdl2-gfx")
    @@ ("SDL2_image" :> "media-libs/sdl2-image")
    @@ ("SDL2_mixer" :> "media-libs/sdl2-mixer")
    @@ ("SDL2_net" :> "media-libs/sdl2-net")
    @@ ("SDL2_ttf" :> "media-libs/sdl2-ttf")
    @@ ("SDL3" :> "media-libs/libsdl3")
    @@ ("SFML" :> "media-libs/libsfml")
    @@ ("clucene-core" :> "dev-cpp/clucene")
    @@ ("gc" :> "dev-libs/boehm-gc")
    @@ ("gperftools" :> "dev-util/google-perftools")
    @@ ("gtksourceview" :> "gui-libs/gtksourceview")
    @@ ("gtksourceview4" :> "x11-libs/gtksourceview")
    @@ ("hiredis-c" :> "dev-libs/hiredis")
    @@ ("libsigc-plus-plus" :> "dev-libs/libsigc++")
    @@ ("ocl-icd" :> "dev-libs/opencl-icd-loader")
    @@ ("xorgproto" :> "x11-base/xorg-proto")
    @@ ("SDL_gfx" :> "media-libs/sdl-gfx")
    @@ ("SDL_image" :> "media-libs/sdl-image")
    @@ ("SDL_mixer" :> "media-libs/sdl-mixer")
    @@ ("SDL_net" :> "media-libs/sdl-net")
    @@ ("SDL_ttf" :> "media-libs/sdl-ttf")
    @@ ("xvidcore" :> "media-libs/xvid")
    @@ ("arpack-ng" :> "sci-libs/arpack")
    @@ ("libMED" :> "sci-libs/med")
    @@ ("libgd" :> "media-libs/gd")
    @@ ("libzmq" :> "net-libs/zeromq")
    @@ ("onig" :> "dev-libs/oniguruma")
    @@ ("libftdi1" :> "dev-embedded/libftdi")
    @@ ("googletest" :> "dev-cpp/gtest")
    @@ ("google-benchmark" :> "dev-cpp/benchmark")
    @@ ("google-crc32c" :> "dev-libs/crc32c")
    @@ ("not-ffmpeg" :> "media-video/ffmpeg")
    @@ ("gstreamer-vaapi" :> "media-plugins/gst-plugins-vaapi")
    @@ ("xmlsec1" :> "dev-libs/xmlsec")
    @@ ("indi" :> "sci-libs/indilib")
    @@ ("kdeconnect-kde" :> "kde-misc/kdeconnect")
    @@ ("valkey" :> "dev-db/redis")
    @@ ("mc" :> "app-misc/mc")
    @@ ("exo" :> "xfce-base/exo")

\* src/save_mapping.py:127-141 (a dict iterated in declaration order)
PREFIX_MAPPINGS ==
    << [prefix |-> "golang-", category |-> "dev-go", transform |-> None],
       [prefix |-> "jdk-", category |-> "dev-java", transform |-> None],
       [prefix |-> "mvn-", category |-> "dev-java", transform |-> None],
       [prefix |-> "perl-", category |-> "dev-perl", transform |-> None],
       [prefix |-> "php-", category |-> "dev-php", transform |-> None],
       [prefix |-> "pypi-", category |-> "dev-python", transform |-> None],
       [prefix |-> "python-", category |-> "dev-python", transform |-> None],
       [prefix |-> "rubygem-", category |-> "dev-ruby", transform |-> None],
       [prefix |-> "qt6", category |-> "dev-qt", transform |-> Some("qt")],
       [prefix |-> "zope.", category |-> "dev-python", transform |-> Some("zope-")],
       [prefix |-> "pypi-zope.", category |-> "dev-python", transform |-> Some("zope-")] >>

\* src/save_mapping.py:144-336
CATEGORY_PRIORITY ==
    ("sys-libs" :> 10) @@ ("sys-apps" :> 11) @@ ("sys-devel" :> 12)
    @@ ("sys-fs" :> 13) @@ ("sys-process" :> 14) @@ ("sys-kernel" :> 15)
    @@ ("sys-firmware" :> 16) @@ ("sys-boot" :> 17) @@ ("sys-auth" :> 18)
    @@ ("sys-power" :> 19) @@ ("sys-block" :> 20) @@ ("sys-cluster" :> 21)
    @@ ("sys-fabric" :> 22) @@ ("dev-libs" :> 30) @@ ("media-libs" :> 31)
    @@ ("x11-libs" :> 32) @@ ("net-libs" :> 33) @@ ("sci-libs" :> 34)
    @@ ("gui-libs" :> 35) @@ ("llvm-core" :> 36) @@ ("llvm-runtimes" :> 37)
    @@ ("app-arch" :> 40) @@ ("app-crypt" :> 41) @@ ("app-containers" :> 42)
    @@ ("app-text" :> 43) @@ ("app-admin" :> 44) @@ ("app-misc" :> 45)
    @@ ("app-editors" :> 46) @@ ("app-emulation" :> 47) @@ ("dev-vcs" :> 48)
    @@ ("dev-util" :> 49) @@ ("dev-build" :> 50) @@ ("dev-debug" :> 51)
    @@ ("net-misc" :> 52) @@ ("net-fs" :> 53) @@ ("net-vpn" :> 54)
    @@ ("net-analyzer" :> 55) @@ ("dev-lang" :> 60) @@ ("app-shells" :> 70)
    @@ ("app-office" :> 71) @@ ("app-portage" :> 72) @@ ("app-benchmarks" :> 73)
    @@ ("app-backup" :> 74) @@ ("app-forensics" :> 75) @@ ("app-i18n" :> 76)
    @@ ("www-servers" :> 77) @@ ("www-client" :> 78) @@ ("net-dns" :> 79)
    @@ ("net-mail" :> 80) @@ ("net-firewall" :> 81) @@ ("net-ftp" :> 82)
    @@ ("net-im" :> 83) @@ ("net-irc" :> 84) @@ ("mail-client" :> 85)
    @@ ("mail-filter" :> 86) @@ ("mail-mta" :> 87) @@ ("dev-db" :> 90)
    @@ ("x11-base" :> 100) @@ ("x11-apps" :> 101) @@ ("x11-wm" :> 102)
    @@ ("x11-terms" :> 103) @@ ("x11-drivers" :> 104) @@ ("x11-misc" :> 105)
    @@ ("x11-plugins" :> 106) @@ ("gnome-base" :> 107) @@ ("kde-frameworks" :> 108)
    @@ ("kde-plasma" :> 109) @@ ("kde-apps" :> 110) @@ ("kde-misc" :> 111)
    @@ ("gui-wm" :> 112) @@ ("gui-apps" :> 113) @@ ("lxde-base" :> 114)
    @@ ("lxqt-base" :> 115) @@ ("xfce-base" :> 116) @@ ("xfce-extra" :> 117)
    @@ ("mate-base" :> 118) @@ ("mate-extra" :> 119) @@ ("gnome-extra" :> 120)
    @@ ("phosh-base" :> 121) @@ ("media-gfx" :> 130) @@ ("media-sound" :> 131)
    @@ ("media-video" :> 132) @@ ("media-tv" :> 133) @@ ("media-plugins" :> 134)
    @@ ("media-radio" :> 135) @@ ("mpv-plugin" :> 136) @@ ("sci-mathematics" :> 140)
    @@ ("sci-physics" :> 141) @@ ("sci-chemistry" :> 142) @@ ("sci-astronomy" :> 143)
    @@ ("sci-biology" :> 144) @@ ("sci-electronics" :> 145) @@ ("sci-geosciences" :> 146)
    @@ ("sci-visualization" :> 147) @@ ("sci-calculators" :> 148) @@ ("sci-misc" :> 149)
    @@ ("sci-ml" :> 150) @@ ("games-emulation" :> 160) @@ ("games-engines" :> 161)
    @@ ("games-action" :> 162) @@ ("games-arcade" :> 163) @@ ("games-board" :> 164)
    @@ ("games-fps" :> 165) @@ ("games-rpg" :> 166) @@ ("games-strategy" :> 167)
    @@ ("games-puzzle" :> 168) @@ ("games-simulation" :> 169) @@ ("games-sports" :> 170)
    @@ ("games-roguelike" :> 171) @@ ("games-mud" :> 172) @@ ("games-server" :> 173)
    @@ ("games-util" :> 174) @@ ("games-misc" :> 175) @@ ("games-kids" :> 176)
    @@ ("app-accessibility" :> 180) @@ ("app-antivirus" :> 181) @@ ("app-cdr" :> 182)
    @@ ("app-eselect" :> 183) @@ ("app-laptop" :> 184) @@ ("app-metrics" :> 185)
    @@ ("app-mobilephone" :> 186) @@ ("app-officeext" :> 187) @@ ("app-pda" :> 188)
    @@ ("net-p2p" :> 189) @@ ("net-news" :> 190) @@ ("net-nntp" :> 191)
    @@ ("net-print" :> 192) @@ ("net-proxy" :> 193) @@ ("net-voip" :> 194)
    @@ ("net-wireless" :> 195) @@ ("net-client" :> 196) @@ ("net-nds" :> 197)
    @@ ("net-dialup" :> 198) @@ ("sec-policy" :> 199) @@ ("www-misc" :> 200)
    @@ ("www-apache" :> 201) @@ ("www-apps" :> 202) @@ ("www-plugins" :> 203)
    @@ ("gnustep-apps" :> 204) @@ ("gnustep-base" :> 205) @@ ("gnustep-libs" :> 206)
    @@ ("dev-embedded" :> 207) @@ ("dev-games" :> 208) @@ ("dev-gap" :> 209)
    @@ ("dev-tex" :> 210) @@ ("dev-texlive" :> 211) @@ ("dev-cpp" :> 300)
    @@ ("dev-tcltk" :> 310) @@ ("dev-dotnet" :> 320) @@ ("dev-java" :> 330)
    @@ ("dev-python" :> 340) @@ ("dev-ruby" :> 350) @@ ("dev-perl" :> 360)
    @@ ("dev-php" :> 370) @@ ("dev-go" :> 380) @@ ("dev-haskell" :> 390)
    @@ ("dev-lua" :> 400) @@ ("dev-lisp" :> 410) @@ ("dev-scheme" :> 420)
    @@ ("dev-ml" :> 430) @@ ("dev-erlang" :> 440) @@ ("dev-elixir" :> 450)
    @@ ("dev-nim" :> 460) @@ ("dev-crystal" :> 470) @@ ("dev-zig" :> 480)
    @@ ("dev-ada" :> 490) @@ ("dev-hare" :> 500) @@ ("perl-core" :> 510)
----------------------------------------------------------------------------
(* PackageMatcher *)

\* PackageMatcher.__init__ before _build_lookup_tables: three empty tables.
EmptyMatcher ==
    [pkg_case_by_category |-> <<>>,
     lowercase_pkg_names |-> {},
     pkg_to_eligible_categories |-> <<>>]

\* BuildEntry without the test of NON_OPTIMIZABLE_CATEGORIES: every category
\* is recorded as eligible.
BuildEntry_NoExclusion(m, category, pkg) ==
    LET lowercase_pkg == Lower(pkg)
        by_cat == DictGet(m.pkg_case_by_category, lowercase_pkg, <<>>)
        eligible == DictGet(m.pkg_to_eligible_categories, lowercase_pkg, <<>>)
    IN  [pkg_case_by_category |->
            DictSet(m.pkg_case_by_category, lowercase_pkg,
                    DictSet(by_cat, category, pkg)),
         lowercase_pkg_names |-> m.lowercase_pkg_names \cup {lowercase_pkg},
         pkg_to_eligible_categories |->
            DictSet(m.pkg_to_eligible_categories, lowercase_pkg,
                    Append(eligible, category))]

\* One pass of the inner loop body of _build_lookup_tables.
BuildEntry(m, category, pkg) ==
    LET lowercase_pkg == Lower(pkg)
        is_optimizable == category \notin NON_OPTIMIZABLE_CATEGORIES
        by_cat == DictGet(m.pkg_case_by_category, lowercase_pkg, <<>>)
        eligible == DictGet(m.pkg_to_eligible_categories, lowercase_pkg, <<>>)
    IN  [pkg_case_by_category |->
            DictSet(m.pkg_case_by_category, lowercase_pkg,
                    DictSet(by_cat, category, pkg)),
         lowercase_pkg_names |-> m.lowercase_pkg_names \cup {lowercase_pkg},
         pkg_to_eligible_categories |->
            IF is_optimizable
            THEN DictSet(m.pkg_to_eligible_categories, lowercase_pkg,
                         Append(eligible, category))
            ELSE m.pkg_to_eligible_categories]

\* _build_lookup_tables over the entries in the order the loops visit them:
\* items is a sequence of <<category, pkg>>.
RECURSIVE BuildFrom(_, _)
BuildFrom(m, items) ==
    IF items = <<>> THEN m
    ELSE BuildFrom(BuildEntry(m, items[1][1], items[1][2]), Tail(items))

build_lookup_tables(items) == BuildFrom(EmptyMatcher, items)

\* All enumerations of a finite set.
Enumerations(S) ==
    {s \in [1..Cardinality(S) -> S] : \A i, j \in 1..Cardinality(S) : s[i] = s[j] => i = j}

RECURSIVE Flatten(_, _, _)
Flatten(catalog, cat_order, pkg_order) ==
    IF cat_order = <<>> THEN <<>>
    ELSE LET c == cat_order[1]
         IN  [i \in 1..Len(pkg_order[c]) |-> <<c, pkg_order[c][i]>>]
             \o Flatten(catalog, Tail(cat_order), pkg_order)

\* The orders in which "for category, pkgs in category_to_pkgs.items(): for
\* pkg in pkgs" can visit a catalog: the dict in its insertion order, which
\* the dict's value does not fix, and each set in an arbitrary order.
IterationOrders(catalog) ==
    { Flatten(catalog, co, po) :
        co \in Enumerations(DOMAIN catalog),
        po \in { p \in [DOMAIN catalog ->
                            UNION {Enumerations(catalog[c]) : c \in DOMAIN catalog}] :
                    \A c \in DOMAIN catalog : p[c] \in Enumerations(catalog[c]) } }

find_matching_categories(m, name) ==
    DictGet(m.pkg_to_eligible_categories, Lower(name), <<>>)

\* get_case_in_category that answers with the name as it was asked.
get_case_in_category_AsAsked(m, name, category) ==
    LET lowercase_pkg == Lower(name)
    IN  IF /\ lowercase_pkg \in DOMAIN m.pkg_case_by_category
           /\ category \in DOMAIN m.pkg_case_by_category[lowercase_pkg]
        THEN Some(name)
        ELSE None

get_case_in_category(m, name, category) ==
    LET lowercase_pkg == Lower(name)
    IN  IF /\ lowercase_pkg \in DOMAIN m.pkg_case_by_category
           /\ category \in DOMAIN m.pkg_case_by_category[lowercase_pkg]
        THEN Some(m.pkg_case_by_category[lowercase_pkg][category])
        ELSE None

package_exists(m, name) == Lower(name) \in m.lowercase_pkg_names

----------------------------------------------------------------------------
(* Resolution *)

\* find_manual_override with the key compared under case folding.
find_manual_override_Caseless(name) ==
    IF \E k \in DOMAIN MANUAL_PKG_OVERRIDES : Lower(k) = Lower(name)
    THEN LET key == CHOOSE k \in DOMAIN MANUAL_PKG_OVERRIDES : Lower(k) = Lower(name)
             gentoo_pkg_path == MANUAL_PKG_OVERRIDES[key]
         IN  Some([gentoo_match |-> Some(gentoo_pkg_path),
                   confidence |-> 1000,
                   all_matches |-> <<gentoo_pkg_path>>])
    ELSE None

find_manual_override(name) ==
    IF name \in DOMAIN MANUAL_PKG_OVERRIDES
    THEN LET gentoo_pkg_path == MANUAL_PKG_OVERRIDES[name]
         IN  Some([gentoo_match |-> Some(gentoo_pkg_path),
                   confidence |-> 1000,
                   all_matches |-> <<gentoo_pkg_path>>])
    ELSE None

\* PriorityKey with 0 as the rank of a category the table does not list.
PriorityKey_DefaultFirst(x) == DictGet(CATEGORY_PRIORITY, x, 0)

\* CATEGORY_PRIORITY.get(x, DEFAULT_LOWEST_PRIORITY)
PriorityKey(x) == DictGet(CATEGORY_PRIORITY, x, DEFAULT_LOWEST_PRIORITY)

\* min(categories, key=...): the first element whose key is minimal.
select_best_category(categories) ==
    IF categories = <<>> THEN ""
    ELSE IF Len(categories) = 1 THEN categories[1]
    ELSE LET i == CHOOSE k \in 1..Len(categories) :
                    /\ \A j \in 1..Len(categories) :
                          PriorityKey(categories[k]) <= PriorityKey(categories[j])
                    /\ \A j \in 1..(k - 1) :
                          PriorityKey(categories[j]) > PriorityKey(categories[k])
         IN  categories[i]

\* round(1 / n, 3) in thousandths: 1000 / n rounded to the nearest integer,
\* a tie going to the even one.
RoundThousandths(n) ==
    LET q == 1000 \div n
        r == 1000 % n
    IN  IF 2 * r > n THEN q + 1
        ELSE IF 2 * r < n THEN q
        ELSE IF q % 2 = 0 THEN q ELSE q + 1

calculate_confidence(matching_categories) ==
    IF matching_categories = <<>> THEN 0
    ELSE IF Len(matching_categories) = 1 THEN 800
    ELSE RoundThousandths(Len(matching_categories))

\* create_match_result that loses the list it is given.
create_match_result_DropsMatches(gentoo_match, confidence, all_matches) ==
    [gentoo_match |-> gentoo_match,
     confidence |-> confidence,
     all_matches |-> <<>>]

create_match_result(gentoo_match, confidence, all_matches) ==
    [gentoo_match |-> gentoo_match,
     confidence |-> confidence,
     all_matches |-> all_matches]

\* create_match_result() with its defaults (None, 0.0, None or []).
NoMatchResult == create_match_result(None, 0, <<>>)

\* The rules of PREFIX_MAPPINGS whose prefix the name starts with.
MatchingRules(name) ==
    {i \in 1..Len(PREFIX_MAPPINGS) : StartsWith(name, PREFIX_MAPPINGS[i].prefix)}

\* extract_package_info that prefers the longest matching prefix.
extract_package_info_LongestPrefix(name) ==
    IF MatchingRules(name) = {} THEN <<name, None>>
    ELSE LET i == CHOOSE k \in MatchingRules(name) :
                      \A j \in MatchingRules(name) :
                          Len(PREFIX_MAPPINGS[j].prefix) <= Len(PREFIX_MAPPINGS[k].prefix)
             mapping == PREFIX_MAPPINGS[i]
             base_name == StrFrom(name, Len(mapping.prefix))
         IN  <<IF TruthyStr(mapping.transform)
               THEN mapping.transform.val \o base_name
               ELSE base_name,
               Some(mapping.category)>>

\* Returns <<transformed_name, required_category>>.
extract_package_info(name) ==
    IF MatchingRules(name) = {} THEN <<name, None>>
    ELSE LET i == CHOOSE k \in MatchingRules(name) : \A j \in MatchingRules(name) : k <= j
             mapping == PREFIX_MAPPINGS[i]
             base_name == StrFrom(name, Len(mapping.prefix))
             transformed_name ==
                 IF TruthyStr(mapping.transform)
                 THEN mapping.transform.val \o base_name
                 ELSE base_name
         IN  <<transformed_name, Some(mapping.category)>>

\* f"{category}/{spelling}"
PkgPath(category, spelling) == category \o "/" \o spelling

\* The loop of try_map_package that fills all_matches.
RECURSIVE CollectMatches(_, _, _)
CollectMatches(m, name, categories) ==
    IF categories = <<>> THEN <<>>
    ELSE LET category_specific_case == get_case_in_category(m, name, categories[1])
             rest == CollectMatches(m, name, Tail(categories))
         IN  IF TruthyStr(category_specific_case)
             THEN <<PkgPath(categories[1], category_specific_case.val)>> \o rest
             ELSE rest

\* The part of try_map_package after the override check.
MapThroughIndex(name, m, required_category) ==
    IF ~package_exists(m, name) THEN None
    ELSE LET found == find_matching_categories(m, name)
         IN  IF found = <<>> THEN None
             ELSE IF /\ TruthyStr(required_category)
                     /\ \A i \in 1..Len(found) : found[i] # required_category.val
             THEN None
             ELSE LET matching_categories ==
                          IF TruthyStr(required_category)
                          THEN <<required_category.val>>
                          ELSE found
                      all_matches == CollectMatches(m, name, matching_categories)
                      best_category == select_best_category(matching_categories)
                      category_specific_case ==
                          get_case_in_category(m, name, best_category)
                  IN  IF TruthyStr(category_specific_case)
                      THEN Some(create_match_result(
                               Some(PkgPath(best_category, category_specific_case.val)),
                               calculate_confidence(matching_categories),
                               all_matches))
                      ELSE None

\* try_map_package that consults the index before the override table.
try_map_package_IndexFirst(name, m, required_category) ==
    LET indexed == MapThroughIndex(name, m, required_category)
    IN  IF indexed # None THEN indexed
        ELSE find_manual_override(name)

\* Returns Some(result dict) or None.
try_map_package(name, m, required_category) ==
    LET override_match == find_manual_override(name)
    IN  IF override_match # None THEN override_match
        ELSE MapThroughIndex(name, m, required_category)

\* map_package that tries the prefix rules before the name as given.
map_package_RuleFirst(name, m) ==
    LET info == extract_package_info(name)
        transformed ==
            IF info[1] # name THEN try_map_package(info[1], m, info[2]) ELSE None
        direct == try_map_package(name, m, None)
    IN  IF transformed # None THEN transformed.val
        ELSE IF direct # None THEN direct.val
        ELSE NoMatchResult

\* map_package that applies the prefix rules again to the transformed name.
map_package_RuleTwice(name, m) ==
    LET direct == try_map_package(name, m, None)
        info == extract_package_info(name)
        again == extract_package_info(info[1])
        required_category == IF again[2] # None THEN again[2] ELSE info[2]
    IN  IF direct # None THEN direct.val
        ELSE IF info[1] # name
        THEN LET transformed == try_map_package(again[1], m, required_category)
             IN  IF transformed # None THEN transformed.val ELSE NoMatchResult
        ELSE NoMatchResult

map_package(name, m) ==
    LET direct == try_map_package(name, m, None)
        info == extract_package_info(name)
        transformed_name == info[1]
        required_category == info[2]
    IN  IF direct # None THEN direct.val
        ELSE IF transformed_name # name
        THEN LET transformed == try_map_package(transformed_name, m, required_category)
             IN  IF transformed # None THEN transformed.val ELSE NoMatchResult
        ELSE NoMatchResult

----------------------------------------------------------------------------
(* What a call leaves in the matcher *)

\* The tables pkg_case_by_category and pkg_to_eligible_categories are
\* collections.defaultdict objects: d[k] on a missing key stores and returns
\* a fresh default, while d.get(k, default) and "k in d" store nothing.

\* A defaultdict whose .get stores the default like d[k] does.
DefaultDictAfterGet_Indexing(d, k, fresh) ==
    IF k \in DOMAIN d THEN d ELSE DictSet(d, k, fresh)

\* The defaultdict after d.get(k, default).
DefaultDictAfterGet(d, k, fresh) == d

\* The defaultdict after d[k].
DefaultDictAfterIndex(d, k, fresh) ==
    IF k \in DOMAIN d THEN d ELSE DictSet(d, k, fresh)

\* The matcher after find_matching_categories(name).
SelfAfter_find_matching_categories(m, name) ==
    [m EXCEPT !.pkg_to_eligible_categories =
                  DefaultDictAfterGet(@, Lower(name), <<>>)]

\* The matcher after get_case_in_category(name, category): the table is
\* indexed only when "lowercase_pkg in self.pkg_case_by_category" held.
SelfAfter_get_case_in_category(m, name, category) ==
    LET lowercase_pkg == Lower(name)
    IN  IF lowercase_pkg \in DOMAIN m.pkg_case_by_category
        THEN LET indexed == DefaultDictAfterIndex(m.pkg_case_by_category,
                                                  lowercase_pkg, <<>>)
             IN  IF category \in DOMAIN indexed[lowercase_pkg]
                 THEN [m EXCEPT !.pkg_case_by_category =
                                    DefaultDictAfterIndex(indexed, lowercase_pkg, <<>>)]
                 ELSE [m EXCEPT !.pkg_case_by_category = indexed]
        ELSE m

\* The matcher after the loop of try_map_package that fills all_matches.
RECURSIVE SelfAfter_CollectMatches(_, _, _)
SelfAfter_CollectMatches(m, name, categories) ==
    IF categories = <<>> THEN m
    ELSE SelfAfter_CollectMatches(
             SelfAfter_get_case_in_category(m, name, categories[1]),
             name, Tail(categories))

\* The matcher after try_map_package(name, m, required_category).
SelfAfter_try_map_package(name, m, required_category) ==
    IF find_manual_override(name) # None THEN m
    ELSE IF ~package_exists(m, name) THEN m
    ELSE LET found == find_matching_categories(m, name)
             m1 == SelfAfter_find_matching_categories(m, name)
         IN  IF found = <<>> THEN m1
             ELSE IF /\ TruthyStr(required_category)
                     /\ \A i \in 1..Len(found) : found[i] # required_category.val
             THEN m1
             ELSE LET matching_categories ==
                          IF TruthyStr(required_category)
                          THEN <<required_category.val>>
                          ELSE found
                      m2 == SelfAfter_CollectMatches(m1, name, matching_categories)
                  IN  SelfAfter_get_case_in_category(
                          m2, name, select_best_category(matching_categories))

\* The matcher after map_package(name, m).
SelfAfter_map_package(name, m) ==
    LET direct == try_map_package(name, m, None)
        m1 == SelfAfter_try_map_package(name, m, None)
        info == extract_package_info(name)
    IN  IF direct # None \/ info[1] = name THEN m1
        ELSE SelfAfter_try_map_package(info[1], m1, info[2])

----------------------------------------------------------------------------
(* The state machine *)

\* The catalogs of the model: every dict from some of Categories to
\* non-empty sets of CatalogPkgs with at most MaxEntries entries in all.
\* EntriesUpTo(n) is the sets of at most n category/package entries.
RECURSIVE EntriesUpTo(_)
EntriesUpTo(n) ==
    IF n = 0 THEN {{}}
    ELSE LET smaller == EntriesUpTo(n - 1)
         IN  smaller \cup {E \cup {e} : E \in smaller, e \in Categories \X CatalogPkgs}

EntrySets == EntriesUpTo(MaxEntries)

CatalogOf(E) ==
    [c \in {e[1] : e \in E} |-> {e[2] : e \in {x \in E : x[1] = c}}]

Catalogs == {CatalogOf(E) : E \in EntrySets}

\* The variables of the parts of the repository a specification leaves out
\* keep these values.
RuleIdle == rule_input = "" /\ rule_output = None

FileIdle ==
    /\ gentoo_file = None
    /\ clearlinux_file = None
    /\ output_file = None
    /\ mapping_results = <<>>

CloneIdle ==
    /\ pkg_names = <<>>
    /\ clone_pc = "idle"
    /\ submitted = 0
    /\ collected = 0
    /\ future_state = <<>>
    /\ work_queue = <<>>
    /\ worker_item = <<>>
    /\ futures_to_cancel = {}
    /\ executor = None
    /\ clone_results = <<>>
    /\ repo_dirs = {}
    /\ attempts = <<>>
    /\ clone_run = 0
    /\ handler_ran = FALSE

FetchIdle ==
    /\ page = 1
    /\ fetched = <<>>
    /\ fetch_pc = "idle"
    /\ response = None
    /\ appended = <<>>

OptIdle ==
    /\ options_conf_files = <<>>
    /\ package_env = <<>>
    /\ opt_pc = "idle"
    /\ opt_next = 1
    /\ opt_run = 0
    /\ opt_written = {}
    /\ opt_returned = None
    /\ opt_appended = <<>>
    /\ opt_io_error = FALSE

ToolsIdle == CloneIdle /\ FetchIdle /\ OptIdle

ParIdle ==
    /\ clear_linux_packages = <<>>
    /\ gentoo_by_category = <<>>
    /\ cpu_cores = 1
    /\ chunks = <<>>
    /\ pending = {}
    /\ par_mapping_results = <<>>
    /\ par_pc = "idle"

\* main before the matcher is constructed: the catalog and the source
\* names are loaded.
Init ==
    /\ category_to_pkgs \in Catalogs
    /\ clearlinux_packages = SourceNames
    /\ pc = "construct"
    /\ built = FALSE
    /\ matcher = EmptyMatcher
    /\ pkg_name = None
    /\ result = NoMatchResult
    /\ RuleIdle /\ FileIdle /\ ParIdle /\ ToolsIdle

\* matcher = PackageMatcher(gentoo_packages)
Construct ==
    /\ pc = "construct"
    /\ ~built
    /\ built' = TRUE
    /\ pc' = "map"
    /\ \E items \in IterationOrders(category_to_pkgs) :
          matcher' = build_lookup_tables(items)
    /\ UNCHANGED <<category_to_pkgs, pkg_name, result, clearlinux_packages>>
    /\ UNCHANGED <<ruleVars, fileVars, parVars, toolVars>>

\* map_package(pkg_name, matcher) for a source name
MapPackage ==
    /\ pc = "map"
    /\ built
    /\ \E name \in clearlinux_packages :
          /\ pkg_name' = Some(name)
          /\ result' = map_package(name, matcher)
    /\ UNCHANGED <<category_to_pkgs, built, matcher, clearlinux_packages, pc>>
    /\ UNCHANGED <<ruleVars, fileVars, parVars, toolVars>>

Next == Construct \/ MapPackage

Spec == Init /\ [][Next]_vars

----------------------------------------------------------------------------
(* The engine over names made of rule prefixes *)

\* A source name of this specification is at most MaxPrefixes of
\* NamePrefixes in a row, followed by one of NameBases: 'zope.interface',
\* 'pypi-zope.interface', 'pypi-SDL', 'sdl' are among them.
MaxPrefixes == 2

NamePrefixes == {"pypi-", "zope."}

\* "SDL" is an override key, "sdl" is not.
NameBases == {"", "interface", "sdl", "SDL"}

RECURSIVE PrefixesUpTo(_)
PrefixesUpTo(n) ==
    IF n = 0 THEN {""}
    ELSE LET shorter == PrefixesUpTo(n - 1)
         IN  shorter \cup {s \o t : s \in shorter, t \in NamePrefixes}

RuleNames == {p \o b : p \in PrefixesUpTo(MaxPrefixes), b \in NameBases}

\* The catalogs of this specification: at most MaxEntries entries over
\* media-libs (rank 31) and dev-python (rank 340, required by "pypi-" and
\* "zope.").
RuleCategories == {"media-libs", "dev-python"}

RuleCatalogPkgs == {"sdl", "zope.interface", "zope-interface"}

RECURSIVE RuleEntriesUpTo(_)
RuleEntriesUpTo(n) ==
    IF n = 0 THEN {{}}
    ELSE LET smaller == RuleEntriesUpTo(n - 1)
         IN  smaller \cup {E \cup {e} : E \in smaller,
                                        e \in RuleCategories \X RuleCatalogPkgs}

RuleCatalogs == {CatalogOf(E) : E \in RuleEntriesUpTo(MaxEntries)}

InitNames ==
    /\ category_to_pkgs \in RuleCatalogs
    /\ clearlinux_packages = RuleNames
    /\ pc = "construct"
    /\ built = FALSE
    /\ matcher = EmptyMatcher
    /\ pkg_name = None
    /\ result = NoMatchResult
    /\ RuleIdle /\ FileIdle /\ ParIdle /\ ToolsIdle

SpecNames == InitNames /\ [][Next]_vars

----------------------------------------------------------------------------
(* The engine over catalogs with an empty package name *)

\* A catalog line "dev-libs/" has the separator and gives the category
\* dev-libs the package name "". The catalogs of this specification have
\* at most MaxEntries entries over two eligible categories and an excluded
\* one, with the empty name and two spellings of one name.
IndexCategories == {"dev-libs", "dev-java", "virtual"}

IndexCatalogPkgs == {"", "Foo", "foo"}

RECURSIVE IndexEntriesUpTo(_)
IndexEntriesUpTo(n) ==
    IF n = 0 THEN {{}}
    ELSE LET smaller == IndexEntriesUpTo(n - 1)
         IN  smaller \cup {E \cup {e} : E \in smaller,
                                        e \in IndexCategories \X IndexCatalogPkgs}

IndexCatalogs == {CatalogOf(E) : E \in IndexEntriesUpTo(MaxEntries)}

\* "mvn-foo" is rewritten to "foo" with the required category dev-java.
IndexNames == {"", "foo", "FOO", "bar", "mvn-foo"}

InitIndex ==
    /\ category_to_pkgs \in IndexCatalogs
    /\ clearlinux_packages = IndexNames
    /\ pc = "construct"
    /\ built = FALSE
    /\ matcher = EmptyMatcher
    /\ pkg_name = None
    /\ result = NoMatchResult
    /\ RuleIdle /\ FileIdle /\ ParIdle /\ ToolsIdle

SpecIndex == InitIndex /\ [][Next]_vars

----------------------------------------------------------------------------
(* The engine with the accesses to the index followed *)

\* map_package(pkg_name, matcher) as in MapPackage, with the matcher taken
\* through every access the call makes to its defaultdict tables.
MapPackageAccesses ==
    /\ pc = "map"
    /\ built
    /\ \E name \in clearlinux_packages :
          /\ pkg_name' = Some(name)
          /\ result' = map_package(name, matcher)
          /\ matcher' = SelfAfter_map_package(name, matcher)
    /\ UNCHANGED <<category_to_pkgs, built, clearlinux_packages, pc>>
    /\ UNCHANGED <<ruleVars, fileVars, parVars, toolVars>>

NextAccesses == Construct \/ MapPackageAccesses

SpecAccesses == InitIndex /\ [][NextAccesses]_vars

----------------------------------------------------------------------------
(* The engine with an index that lost a spelling *)

\* Every category of an eligible-category list of m has a spelling
\* recorded, as after _build_lookup_tables.
NoSpellingLost(m) ==
    \A k \in DOMAIN m.pkg_to_eligible_categories :
        \A i \in 1..Len(m.pkg_to_eligible_categories[k]) :
            /\ k \in DOMAIN m.pkg_case_by_category
            /\ m.pkg_to_eligible_categories[k][i] \in DOMAIN m.pkg_case_by_category[k]

\* d without the key k.
DictDel(d, k) == [x \in DOMAIN d \ {k} |-> d[x]]

\* The tables of a PackageMatcher are public attributes holding mutable
\* dicts. The index loses the spelling of one name in one category in which
\* the eligible-category list still has it: the inconsistency that
\* try_map_package tests for after get_case_in_category. It happens at most
\* once, before the first map_package call.
LoseSpelling ==
    /\ pc = "map"
    /\ built
    /\ pkg_name = None
    /\ NoSpellingLost(matcher)
    /\ \E k \in DOMAIN matcher.pkg_to_eligible_categories :
          \E i \in 1..Len(matcher.pkg_to_eligible_categories[k]) :
              matcher' =
                  [matcher EXCEPT !.pkg_case_by_category[k] =
                       DictDel(@, matcher.pkg_to_eligible_categories[k][i])]
    /\ UNCHANGED <<category_to_pkgs, built, clearlinux_packages, pc, pkg_name, result>>
    /\ UNCHANGED <<ruleVars, fileVars, parVars, toolVars>>

NextDamaged == Construct \/ LoseSpelling \/ MapPackage

SpecDamaged == InitIndex /\ [][NextDamaged]_vars

----------------------------------------------------------------------------
(* extract_package_info on its own *)

\* What a name starts with: every prefix of PREFIX_MAPPINGS, nothing, and
\* near misses of the prefixes.
NameHeads ==
    {PREFIX_MAPPINGS[i].prefix : i \in 1..Len(PREFIX_MAPPINGS)}
        \cup {"", "pypi", "pypi-zope", "Pypi-", "qt5", "lib"}

\* What follows.
NameRests == {"", "interface", "zope.interface", "pypi-six", "base"}

RuleInputs == {h \o r : h \in NameHeads, r \in NameRests}

InitRules ==
    /\ rule_input \in RuleInputs
    /\ rule_output = None
    /\ category_to_pkgs = <<>>
    /\ clearlinux_packages = {}
    /\ pc = "rules"
    /\ built = FALSE
    /\ matcher = EmptyMatcher
    /\ pkg_name = None
    /\ result = NoMatchResult
    /\ FileIdle /\ ParIdle /\ ToolsIdle

\* transformed_name, required_category = extract_package_info(pkg_name)
ExtractInfo ==
    /\ pc = "rules"
    /\ rule_output = None
    /\ rule_output' = Some(extract_package_info(rule_input))
    /\ UNCHANGED <<rule_input, engineVars, fileVars, parVars, toolVars>>

NextRules == ExtractInfo

SpecRules == InitRules /\ [][NextRules]_vars

----------------------------------------------------------------------------
(* main: load the two files, map every name, save *)

\* A call that ended with an exception.
Raised(exception) == [tag |-> "Raised", exception |-> exception]

\* The loop of load_gentoo_packages from line i on: Some(table), or the
\* ValueError of unpacking a line that split() left in one piece.
RECURSIVE LoadGentooFrom(_, _, _)
LoadGentooFrom(lines, i, table) ==
    IF i > Len(lines) THEN Some(table)
    ELSE LET line == Strip(lines[i])
             pieces == SplitOnce(line)
         IN  IF Len(pieces) # 2 THEN Raised("ValueError")
             ELSE LoadGentooFrom(lines, i + 1,
                      DictSet(table, pieces[1],
                              DictGet(table, pieces[1], {}) \cup {pieces[2]}))

\* file is None when the file does not exist, else Some(its lines).
load_gentoo_packages(file) ==
    IF file = None THEN Raised("FileNotFoundError")
    ELSE LoadGentooFrom(file.val, 1, <<>>)

\* load_clearlinux_packages that takes a missing file for an empty one.
load_clearlinux_packages_MissingIsEmpty(file) ==
    IF file = None THEN Some({})
    ELSE Some({Strip(file.val[i]) : i \in 1..Len(file.val)})

load_clearlinux_packages(file) ==
    IF file = None THEN Raised("FileNotFoundError")
    ELSE Some({Strip(file.val[i]) : i \in 1..Len(file.val)})

\* The values of a JSON document.
JsonNull == [json |-> "null"]
JsonString(s) == [json |-> "string", text |-> s]
JsonNumber(thousandths) == [json |-> "number", thousandths |-> thousandths]
JsonArray(items) == [json |-> "array", items |-> items]

\* json.dump of one match result.
JsonOfResult(r) ==
    [gentoo_match |-> IF r.gentoo_match = None THEN JsonNull
                      ELSE JsonString(r.gentoo_match.val),
     confidence |-> JsonNumber(r.confidence),
     all_matches |-> JsonArray([i \in 1..Len(r.all_matches) |->
                                   JsonString(r.all_matches[i])])]

\* The keys in descending order.
RECURSIVE SortedKeys_Descending(_)
SortedKeys_Descending(keys) ==
    IF keys = {} THEN <<>>
    ELSE LET last == CHOOSE k \in keys : \A other \in keys \ {k} : StrLess(other, k)
         IN  <<last>> \o SortedKeys_Descending(keys \ {last})

\* sort_keys=True: the keys in ascending order.
RECURSIVE SortedKeys(_)
SortedKeys(keys) ==
    IF keys = {} THEN <<>>
    ELSE LET first == CHOOSE k \in keys : \A other \in keys \ {k} : StrLess(k, other)
         IN  <<first>> \o SortedKeys(keys \ {first})

\* json.dump(mapping_results, f, indent=2, sort_keys=True): the members of
\* the written object, in the order written.
json_dump(mapping) ==
    LET keys == SortedKeys(DOMAIN mapping)
    IN  [i \in 1..Len(keys) |->
            [key |-> keys[i], value |-> JsonOfResult(mapping[keys[i]])]]

\* The files of the model hold at most MaxCatalogLines and MaxSourceLines
\* lines.
MaxCatalogLines == 2

MaxSourceLines == 3

CatalogLines == {"dev-libs/xz", " dev-java/foo ", "", "noslash"}

SourceLines == {"xz", " xz ", "mvn-foo", ""}

RECURSIVE LinesUpTo(_, _)
LinesUpTo(n, kinds) ==
    IF n = 0 THEN {<<>>}
    ELSE LET shorter == LinesUpTo(n - 1, kinds)
         IN  shorter \cup {Append(f, l) : f \in shorter, l \in kinds}

\* What the output file holds when a run starts, if it exists.
OldOutput == json_dump("old" :> NoMatchResult)

InitMain ==
    /\ gentoo_file \in {None} \cup {Some(f) : f \in LinesUpTo(MaxCatalogLines, CatalogLines)}
    /\ clearlinux_file \in {None} \cup {Some(f) : f \in LinesUpTo(MaxSourceLines, SourceLines)}
    /\ output_file \in {None, Some(OldOutput)}
    /\ mapping_results = <<>>
    /\ category_to_pkgs = <<>>
    /\ clearlinux_packages = {}
    /\ pc = "load_gentoo"
    /\ built = FALSE
    /\ matcher = EmptyMatcher
    /\ pkg_name = None
    /\ result = NoMatchResult
    /\ RuleIdle /\ ParIdle /\ ToolsIdle

\* gentoo_packages = load_gentoo_packages(GENTOO_PKG_FILE)
LoadGentoo ==
    /\ pc = "load_gentoo"
    /\ LET loaded == load_gentoo_packages(gentoo_file)
       IN  IF loaded.tag = "Raised"
           THEN pc' = "failed" /\ UNCHANGED category_to_pkgs
           ELSE pc' = "load_clearlinux" /\ category_to_pkgs' = loaded.val
    /\ UNCHANGED <<built, matcher, pkg_name, result, clearlinux_packages>>
    /\ UNCHANGED <<ruleVars, fileVars, parVars, toolVars>>

\* clearlinux_packages = load_clearlinux_packages(CLEARLINUX_PKG_FILE)
LoadClearlinux ==
    /\ pc = "load_clearlinux"
    /\ LET loaded == load_clearlinux_packages(clearlinux_file)
       IN  IF loaded.tag = "Raised"
           THEN pc' = "failed" /\ UNCHANGED clearlinux_packages
           ELSE pc' = "construct" /\ clearlinux_packages' = loaded.val
    /\ UNCHANGED <<category_to_pkgs, built, matcher, pkg_name, result>>
    /\ UNCHANGED <<ruleVars, fileVars, parVars, toolVars>>

\* One turn of the loop: mapping_results[pkg_name] = map_package(pkg_name,
\* matcher), for the names of the set in any order.
MapNext ==
    /\ pc = "map"
    /\ built
    /\ \E name \in clearlinux_packages \ DOMAIN mapping_results :
          /\ pkg_name' = Some(name)
          /\ result' = map_package(name, matcher)
          /\ mapping_results' = DictSet(mapping_results, name, map_package(name, matcher))
    /\ UNCHANGED <<category_to_pkgs, built, matcher, clearlinux_packages, pc>>
    /\ UNCHANGED <<gentoo_file, clearlinux_file, output_file>>
    /\ UNCHANGED <<ruleVars, parVars, toolVars>>

\* save_mapping_to_json(mapping_results, OUTPUT_FILE), once the loop is over.
Save ==
    /\ pc = "map"
    /\ built
    /\ clearlinux_packages \subseteq DOMAIN mapping_results
    /\ output_file' = Some(json_dump(mapping_results))
    /\ pc' = "done"
    /\ UNCHANGED <<category_to_pkgs, built, matcher, pkg_name, result, clearlinux_packages>>
    /\ UNCHANGED <<gentoo_file, clearlinux_file, mapping_results>>
    /\ UNCHANGED <<ruleVars, parVars, toolVars>>

NextMain == LoadGentoo \/ LoadClearlinux \/ Construct \/ MapNext \/ Save

SpecMain == InitMain /\ [][NextMain]_vars

----------------------------------------------------------------------------
(* util_scripts/save_mapping.py: the chunked parallel mapper *)

\* src/util_scripts/save_mapping.py:11-225
PRIORITY_CATEGORIES ==
    ("sys-libs" :> 1) @@ ("sys-devel" :> 2) @@ ("sys-apps" :> 3)
    @@ ("sys-fs" :> 4) @@ ("sys-auth" :> 5) @@ ("sys-process" :> 6)
    @@ ("sys-cluster" :> 7) @@ ("sys-power" :> 8) @@ ("sys-block" :> 9)
    @@ ("sys-boot" :> 10) @@ ("sys-kernel" :> 11) @@ ("sys-firmware" :> 12)
    @@ ("sys-fabric" :> 13) @@ ("dev-libs" :> 14) @@ ("dev-build" :> 15)
    @@ ("dev-util" :> 16) @@ ("dev-lang" :> 17) @@ ("dev-vcs" :> 18)
    @@ ("dev-cpp" :> 19) @@ ("dev-db" :> 20) @@ ("dev-debug" :> 21)
    @@ ("net-libs" :> 22) @@ ("media-libs" :> 23) @@ ("sci-libs" :> 24)
    @@ ("x11-libs" :> 25) @@ ("gui-libs" :> 26) @@ ("llvm-core" :> 27)
    @@ ("llvm-runtimes" :> 28) @@ ("net-misc" :> 29) @@ ("net-dns" :> 30)
    @@ ("mail-mta" :> 31) @@ ("net-mail" :> 32) @@ ("www-servers" :> 33)
    @@ ("net-fs" :> 34) @@ ("net-proxy" :> 35) @@ ("net-analyzer" :> 36)
    @@ ("net-vpn" :> 37) @@ ("net-firewall" :> 38) @@ ("net-wireless" :> 39)
    @@ ("app-arch" :> 40) @@ ("app-crypt" :> 41) @@ ("app-containers" :> 42)
    @@ ("app-emulation" :> 43) @@ ("app-alternatives" :> 44) @@ ("app-admin" :> 45)
    @@ ("app-misc" :> 46) @@ ("app-metrics" :> 47) @@ ("app-text" :> 48)
    @@ ("app-shells" :> 49) @@ ("app-office" :> 50) @@ ("app-antivirus" :> 51)
    @@ ("app-portage" :> 52) @@ ("app-editors" :> 53) @@ ("gnome-base" :> 54)
    @@ ("kde-plasma" :> 55) @@ ("xfce-base" :> 56) @@ ("mate-base" :> 57)
    @@ ("lxde-base" :> 58) @@ ("lxqt-base" :> 59) @@ ("phosh-base" :> 60)
    @@ ("x11-base" :> 61) @@ ("x11-wm" :> 62) @@ ("gui-wm" :> 63)
    @@ ("x11-terms" :> 64) @@ ("x11-apps" :> 65) @@ ("media-video" :> 66)
    @@ ("media-sound" :> 67) @@ ("media-gfx" :> 68) @@ ("media-radio" :> 69)
    @@ ("media-tv" :> 70) @@ ("media-plugins" :> 71) @@ ("mpv-plugin" :> 72)
    @@ ("media-fonts" :> 73) @@ ("net-p2p" :> 74) @@ ("net-im" :> 75)
    @@ ("net-irc" :> 76) @@ ("www-apps" :> 77) @@ ("www-client" :> 78)
    @@ ("mail-client" :> 79) @@ ("mail-filter" :> 80) @@ ("net-news" :> 81)
    @@ ("net-nntp" :> 82) @@ ("net-ftp" :> 83) @@ ("net-voip" :> 84)
    @@ ("net-print" :> 85) @@ ("net-dialup" :> 86) @@ ("net-client" :> 87)
    @@ ("net-nds" :> 88) @@ ("www-misc" :> 89) @@ ("www-apache" :> 90)
    @@ ("www-plugins" :> 91) @@ ("sci-mathematics" :> 92) @@ ("sci-physics" :> 93)
    @@ ("sci-chemistry" :> 94) @@ ("sci-biology" :> 95) @@ ("sci-electronics" :> 96)
    @@ ("sci-geosciences" :> 97) @@ ("sci-visualization" :> 98) @@ ("sci-astronomy" :> 99)
    @@ ("sci-calculators" :> 100) @@ ("sci-misc" :> 101) @@ ("sci-ml" :> 102)
    @@ ("games-emulation" :> 103) @@ ("games-engines" :> 104) @@ ("games-simulation" :> 105)
    @@ ("games-strategy" :> 106) @@ ("games-rpg" :> 107) @@ ("games-action" :> 108)
    @@ ("games-fps" :> 109) @@ ("games-arcade" :> 110) @@ ("games-puzzle" :> 111)
    @@ ("games-board" :> 112) @@ ("games-sports" :> 113) @@ ("games-util" :> 114)
    @@ ("games-roguelike" :> 115) @@ ("games-misc" :> 116) @@ ("games-kids" :> 117)
    @@ ("games-mud" :> 118) @@ ("games-server" :> 119) @@ ("gnome-extra" :> 120)
    @@ ("kde-apps" :> 121) @@ ("kde-frameworks" :> 122) @@ ("kde-misc" :> 123)
    @@ ("xfce-extra" :> 124) @@ ("mate-extra" :> 125) @@ ("x11-misc" :> 126)
    @@ ("gui-apps" :> 127) @@ ("x11-themes" :> 128) @@ ("x11-plugins" :> 129)
    @@ ("x11-drivers" :> 130) @@ ("app-backup" :> 131) @@ ("app-benchmarks" :> 132)
    @@ ("app-cdr" :> 133) @@ ("app-dicts" :> 134) @@ ("app-doc" :> 135)
    @@ ("app-accessibility" :> 136) @@ ("app-forensics" :> 137) @@ ("app-i18n" :> 138)
    @@ ("app-laptop" :> 139) @@ ("app-mobilephone" :> 140) @@ ("app-officeext" :> 141)
    @@ ("app-pda" :> 142) @@ ("app-vim" :> 143) @@ ("app-emacs" :> 144)
    @@ ("app-eselect" :> 145) @@ ("app-voices" :> 146) @@ ("app-xemacs" :> 147)
    @@ ("dev-embedded" :> 148) @@ ("dev-ml" :> 149) @@ ("dev-games" :> 150)
    @@ ("dev-qt" :> 151) @@ ("dev-tcltk" :> 152) @@ ("dev-tex" :> 153)
    @@ ("dev-texlive" :> 154) @@ ("dev-ada" :> 155) @@ ("dev-dotnet" :> 156)
    @@ ("dev-gap" :> 157) @@ ("dev-hare" :> 158) @@ ("dev-lisp" :> 159)
    @@ ("dev-nim" :> 160) @@ ("dev-scheme" :> 161) @@ ("dev-zig" :> 162)
    @@ ("dev-go" :> 163) @@ ("dev-elixir" :> 164) @@ ("gnustep-base" :> 165)
    @@ ("gnustep-libs" :> 166) @@ ("gnustep-apps" :> 167) @@ ("dev-python" :> 168)
    @@ ("dev-ruby" :> 169) @@ ("dev-perl" :> 170) @@ ("dev-php" :> 171)
    @@ ("dev-lua" :> 172) @@ ("dev-java" :> 173) @@ ("dev-haskell" :> 174)
    @@ ("dev-erlang" :> 175) @@ ("dev-crystal" :> 176) @@ ("perl-core" :> 177)
    @@ ("virtual" :> 178) @@ ("sec-keys" :> 179) @@ ("sec-policy" :> 180)
    @@ ("acct-user" :> 181) @@ ("acct-group" :> 182)

\* src/util_scripts/save_mapping.py:229-233
MANUAL_PACKAGE_OVERRIDES ==
    ("SDL" :> "media-libs/libsdl") @@ ("fmt" :> "dev-libs/libfmt")
    @@ ("httpd" :> "www-servers/apache")

DEFAULT_PRIORITY == 30

\* The match_result a package starts with.
NoExactMatch ==
    [gentoo_match |-> None, confidence |-> 0, verified |-> FALSE, all_matches |-> <<>>]

\* all_gentoo_packages: the union of the package sets of the catalog, a
\* sequence of [category, packages] in the order of the dict.
all_gentoo_packages(by_category) ==
    UNION {by_category[i].packages : i \in 1..Len(by_category)}

\* sorted(matching_categories, key=...)[0]: the first of the categories
\* with the lowest priority number.
BestCategory(matching_categories) ==
    LET key(c) == DictGet(PRIORITY_CATEGORIES, c, DEFAULT_PRIORITY)
        i == CHOOSE k \in 1..Len(matching_categories) :
                 /\ \A j \in 1..Len(matching_categories) :
                       key(matching_categories[k]) <= key(matching_categories[j])
                 /\ \A j \in 1..(k - 1) :
                       key(matching_categories[k]) < key(matching_categories[j])
    IN  matching_categories[i]

\* The body of the loop of process_chunk: the match_result of one package.
match_result(package_name, by_category, all_packages) ==
    IF package_name \in DOMAIN MANUAL_PACKAGE_OVERRIDES
    THEN [gentoo_match |-> Some(MANUAL_PACKAGE_OVERRIDES[package_name]),
          confidence |-> 1000,
          verified |-> TRUE,
          all_matches |-> <<MANUAL_PACKAGE_OVERRIDES[package_name]>>]
    ELSE IF package_name \notin all_packages THEN NoExactMatch
    ELSE LET holding == SelectSeq(by_category, LAMBDA entry : package_name \in entry.packages)
             matching_categories == [i \in 1..Len(holding) |-> holding[i].category]
         IN  IF matching_categories = <<>> THEN NoExactMatch
             ELSE [gentoo_match |->
                       Some(PkgPath(BestCategory(matching_categories), package_name)),
                   confidence |-> IF Len(matching_categories) = 1 THEN 1000 ELSE 800,
                   verified |-> TRUE,
                   all_matches |->
                       [i \in 1..Len(matching_categories) |->
                           PkgPath(matching_categories[i], package_name)]]

\* process_chunk from package i of the chunk on.
RECURSIVE ProcessFrom(_, _, _, _, _)
ProcessFrom(packages, i, by_category, all_packages, results) ==
    IF i > Len(packages) THEN results
    ELSE ProcessFrom(packages, i + 1, by_category, all_packages,
                     DictSet(results, packages[i],
                             match_result(packages[i], by_category, all_packages)))

\* data is <<clear_linux_packages, gentoo_by_category, all_gentoo_packages>>.
process_chunk(data) == ProcessFrom(data[1], 1, data[2], data[3], <<>>)

\* max(1, int((cpu_count or 1) * 0.75)); cpu_count is None or Some(n).
CpuCores(cpu_count) ==
    LET n == IF cpu_count = None \/ cpu_count.val = 0 THEN 1 ELSE cpu_count.val
        scaled == (n * 3) \div 4
    IN  IF scaled < 1 THEN 1 ELSE scaled

\* The slices that stop one package early.
SplitIntoChunks_ShortSlices(packages, chunk_size) ==
    LET count == (Len(packages) + chunk_size - 1) \div chunk_size
    IN  [k \in 1..count |->
            SubSeq(packages, (k - 1) * chunk_size + 1,
                   IF k * chunk_size - 1 < Len(packages)
                   THEN k * chunk_size - 1 ELSE Len(packages))]

\* clear_linux_packages[i : i + chunk_size] for i in
\* range(0, len(clear_linux_packages), chunk_size)
SplitIntoChunks(packages, chunk_size) ==
    LET count == (Len(packages) + chunk_size - 1) \div chunk_size
    IN  [k \in 1..count |->
            SubSeq(packages, (k - 1) * chunk_size + 1,
                   IF k * chunk_size < Len(packages)
                   THEN k * chunk_size ELSE Len(packages))]

\* a.update(b)
DictUpdate(a, b) ==
    [k \in (DOMAIN a) \cup (DOMAIN b) |-> IF k \in DOMAIN b THEN b[k] ELSE a[k]]

\* json.dump of one match_result of the parallel mapper.
JsonOfExactResult(r) ==
    [gentoo_match |-> IF r.gentoo_match = None THEN JsonNull
                      ELSE JsonString(r.gentoo_match.val),
     confidence |-> JsonNumber(r.confidence),
     verified |-> [json |-> IF r.verified THEN "true" ELSE "false"],
     all_matches |-> JsonArray([i \in 1..Len(r.all_matches) |->
                                   JsonString(r.all_matches[i])])]

\* json.dump(mapping_results, f, indent=2, sort_keys=True)
exact_json_dump(mapping) ==
    LET keys == SortedKeys(DOMAIN mapping)
    IN  [i \in 1..Len(keys) |->
            [key |-> keys[i], value |-> JsonOfExactResult(mapping[keys[i]])]]

\* The package lists of the model have at most MaxList names, the machine
\* at most MaxCpuCount processors, the catalog at most MaxParCategories
\* categories.
MaxList == 3

MaxCpuCount == 6

MaxParCategories == 2

ParNames == {"zlib", "fmt", "SDL", "nomatch"}

\* sys-libs has priority 1, net-dns 30, x-local is unlisted.
ParCategories == {"sys-libs", "net-dns", "x-local"}

ParPackageSets == {{"zlib"}, {"zlib", "fmt"}}

RECURSIVE ParCatalogsUpTo(_)
ParCatalogsUpTo(n) ==
    IF n = 0 THEN {<<>>}
    ELSE LET shorter == ParCatalogsUpTo(n - 1)
         IN  shorter \cup
             {Append(d, [category |-> c, packages |-> s]) :
                 d \in shorter,
                 c \in ParCategories,
                 s \in ParPackageSets}

\* A dict has each key once.
ParCatalogs ==
    {d \in ParCatalogsUpTo(MaxParCategories) :
        \A i, j \in 1..Len(d) : i # j => d[i].category # d[j].category}

CpuCounts == {None} \cup {Some(n) : n \in 1..MaxCpuCount}

InitPar ==
    /\ clear_linux_packages \in LinesUpTo(MaxList, ParNames)
    /\ gentoo_by_category \in ParCatalogs
    /\ cpu_cores = 1
    /\ chunks = <<>>
    /\ pending = {}
    /\ par_mapping_results = <<>>
    /\ par_pc = "start"
    /\ category_to_pkgs = <<>>
    /\ clearlinux_packages = {}
    /\ pc = "idle"
    /\ built = FALSE
    /\ matcher = EmptyMatcher
    /\ pkg_name = None
    /\ result = NoMatchResult
    /\ RuleIdle /\ FileIdle /\ ToolsIdle

\* main up to the submission of every chunk to the pool.
Submit ==
    /\ par_pc = "start"
    /\ \E cpu_count \in CpuCounts :
          LET cores == CpuCores(cpu_count)
              chunk_size == Len(clear_linux_packages) \div cores + 1
          IN  /\ cpu_cores' = cores
              /\ chunks' = SplitIntoChunks(clear_linux_packages, chunk_size)
              /\ pending' = 1..Len(SplitIntoChunks(clear_linux_packages, chunk_size))
    /\ par_pc' = "collect"
    /\ UNCHANGED <<clear_linux_packages, gentoo_by_category, par_mapping_results>>
    /\ UNCHANGED <<engineVars, ruleVars, fileVars, toolVars>>

\* One turn of the loop over as_completed: some future not yet yielded is
\* done, and its result is merged.
Complete ==
    /\ par_pc = "collect"
    /\ \E i \in pending :
          /\ par_mapping_results' =
                DictUpdate(par_mapping_results,
                           process_chunk(<<chunks[i], gentoo_by_category,
                                           all_gentoo_packages(gentoo_by_category)>>))
          /\ pending' = pending \ {i}
    /\ UNCHANGED <<clear_linux_packages, gentoo_by_category, cpu_cores, chunks, par_pc>>
    /\ UNCHANGED <<engineVars, ruleVars, fileVars, toolVars>>

\* Every future was yielded: the mapping is written.
SaveExact ==
    /\ par_pc = "collect"
    /\ pending = {}
    /\ par_pc' = "done"
    /\ output_file' = Some(exact_json_dump(par_mapping_results))
    /\ UNCHANGED <<clear_linux_packages, gentoo_by_category, cpu_cores, chunks, pending,
                   par_mapping_results>>
    /\ UNCHANGED <<gentoo_file, clearlinux_file, mapping_results>>
    /\ UNCHANGED <<engineVars, ruleVars, toolVars>>

NextPar == Submit \/ Complete \/ SaveExact

SpecPar == InitPar /\ [][NextPar]_vars

----------------------------------------------------------------------------
(* fetch_clearlinux_pkgs.py: the pagination loop *)

\* The mapper programs are not running.
MapperIdle ==
    /\ category_to_pkgs = <<>>
    /\ clearlinux_packages = {}
    /\ pc = "idle"
    /\ built = FALSE
    /\ matcher = EmptyMatcher
    /\ pkg_name = None
    /\ result = NoMatchResult
    /\ RuleIdle /\ FileIdle /\ ParIdle

\* The organisation has at most MaxPages pages of repositories.
MaxPages == 2

\* A page holds at most MaxRepos repositories.
MaxRepos == 2

\* The repositories of the model: two live, one archived.
Repos ==
    {[name |-> "bash", archived |-> FALSE],
     [name |-> "zlib", archived |-> FALSE],
     [name |-> "oldpkg", archived |-> TRUE]}

RECURSIVE ReposUpTo(_)
ReposUpTo(n) ==
    IF n = 0 THEN {<<>>}
    ELSE LET shorter == ReposUpTo(n - 1)
         IN  shorter \cup {Append(s, r) : s \in shorter, r \in Repos}

\* The values of the header X-RateLimit-Remaining the server sends.
RemainingValues == {"0", "7", "60"}

\* The headers of an answer: with or without the header.
HeaderSets ==
    {<<>>} \cup {("X-RateLimit-Remaining" :> v) : v \in RemainingValues}

\* fetch_repositories_page on requests.RequestException: return [], {}
FailedFetch == [repos |-> <<>>, headers |-> <<>>]

\* What fetch_repositories_page(p) can return: the answer of the server,
\* which has nothing beyond page MaxPages, or the pair of a failed request.
fetch_repositories_page(p) ==
    {FailedFetch}
        \cup {[repos |-> r, headers |-> h] :
                 r \in IF p > MaxPages THEN {<<>>} ELSE ReposUpTo(MaxRepos),
                 h \in HeaderSets}

\* handle_rate_limiting that takes a missing header for calls remaining.
handle_rate_limiting_MissingIsFine(headers) ==
    LET remaining ==
            IF "X-RateLimit-Remaining" \in DOMAIN headers
            THEN int(headers["X-RateLimit-Remaining"])
            ELSE 1
    IN  remaining = 0

\* remaining = int(headers.get("X-RateLimit-Remaining", 0)); the function
\* sleeps and returns True when remaining == 0.
handle_rate_limiting(headers) ==
    LET remaining ==
            IF "X-RateLimit-Remaining" \in DOMAIN headers
            THEN int(headers["X-RateLimit-Remaining"])
            ELSE 0
    IN  remaining = 0

\* [repo["name"] for repo in repositories if not repo.get("archived", False)]
RECURSIVE extract_package_names(_)
extract_package_names(repositories) ==
    IF repositories = <<>> THEN <<>>
    ELSE (IF repositories[1].archived THEN <<>> ELSE <<repositories[1].name>>)
             \o extract_package_names(Tail(repositories))

\* get_clearlinux_packages before the loop: packages = [], page = 1.
InitFetch ==
    /\ page = 1
    /\ fetched = <<>>
    /\ fetch_pc = "loop"
    /\ response = None
    /\ appended = <<>>
    /\ MapperIdle /\ CloneIdle /\ OptIdle

\* One turn of "while True" in get_clearlinux_packages.
FetchPage ==
    /\ fetch_pc = "loop"
    /\ \E answer \in fetch_repositories_page(page) :
          /\ response' = Some(answer)
          /\ IF handle_rate_limiting(answer.headers)
             THEN UNCHANGED <<page, fetched, fetch_pc, appended>>
             ELSE IF answer.repos = <<>>
             THEN fetch_pc' = "returned" /\ UNCHANGED <<page, fetched, appended>>
             ELSE /\ fetched' = fetched \o extract_package_names(answer.repos)
                  /\ appended' = Append(appended, page)
                  /\ page' = page + 1
                  /\ UNCHANGED fetch_pc
    /\ UNCHANGED <<mapperVars, cloneVars, optVars>>

NextFetch == FetchPage

SpecFetch == InitFetch /\ [][NextFetch]_vars

----------------------------------------------------------------------------
(* options_parser.py: the package.env files *)

\* main finds at most MaxConfs options.conf files.
MaxConfs == 2

\* main runs at most MaxOptRuns times over the same inputs.
MaxOptRuns == 2

\* The values convert_value returns.
BoolValue(b) == [type |-> "bool", val |-> b]
IntValue(n) == [type |-> "int", val |-> n]
StrValue(s) == [type |-> "str", val |-> s]

\* bool(value) of such a value.
Truthy(value) ==
    CASE value.type = "bool" -> value.val
      [] value.type = "int" -> value.val # 0
      [] value.type = "str" -> value.val # ""

convert_value(value) ==
    LET value_lower == Lower(value)
    IN  IF value_lower = "true" THEN BoolValue(TRUE)
        ELSE IF value_lower = "false" THEN BoolValue(FALSE)
        ELSE IF isdigit(value) THEN IntValue(int(value))
        ELSE StrValue(value)

\* parse_options_conf on the sections of a file: the values of the section
\* autospec are converted, the others stay strings.
parse_options_conf(sections) ==
    [section \in DOMAIN sections |->
        [key \in DOMAIN sections[section] |->
            IF section = "autospec"
            THEN convert_value(sections[section][key])
            ELSE sections[section][key]]]

\* get_flag_mappings without the inversion of the "no-lto" entry.
get_flag_mappings_NoInvert ==
    << [flag |-> "security_sensitive", filename |-> "security_sensitive",
        conf_file |-> "security-sensitive.conf", invert |-> FALSE],
       [flag |-> "funroll-loops", filename |-> "funroll",
        conf_file |-> "funroll.conf", invert |-> FALSE],
       [flag |-> "optimize_size", filename |-> "Osize",
        conf_file |-> "Osize.conf", invert |-> FALSE],
       [flag |-> "fast-math", filename |-> "ffast-math",
        conf_file |-> "ffast-math.conf", invert |-> FALSE],
       [flag |-> "use_lto", filename |-> "lto",
        conf_file |-> "lto.conf", invert |-> FALSE],
       [flag |-> "use_lto", filename |-> "no-lto",
        conf_file |-> "no-lto.conf", invert |-> FALSE] >>

get_flag_mappings ==
    << [flag |-> "security_sensitive", filename |-> "security_sensitive",
        conf_file |-> "security-sensitive.conf", invert |-> FALSE],
       [flag |-> "funroll-loops", filename |-> "funroll",
        conf_file |-> "funroll.conf", invert |-> FALSE],
       [flag |-> "optimize_size", filename |-> "Osize",
        conf_file |-> "Osize.conf", invert |-> FALSE],
       [flag |-> "fast-math", filename |-> "ffast-math",
        conf_file |-> "ffast-math.conf", invert |-> FALSE],
       [flag |-> "use_lto", filename |-> "lto",
        conf_file |-> "lto.conf", invert |-> FALSE],
       [flag |-> "use_lto", filename |-> "no-lto",
        conf_file |-> "no-lto.conf", invert |-> TRUE] >>

\* The package mapping file of the model: one package with a match, one
\* without.
PkgMapping ==
    ("bash" :> [gentoo_match |-> Some("app-shells/bash")])
    @@ ("ghost" :> [gentoo_match |-> None])

\* Returns the Gentoo name or None.
get_gentoo_package_name(clear_pkg_name, pkg_mapping) ==
    IF clear_pkg_name \notin DOMAIN pkg_mapping THEN None
    ELSE LET gentoo_pkg_name == pkg_mapping[clear_pkg_name].gentoo_match
         IN  IF TruthyStr(gentoo_pkg_name) THEN gentoo_pkg_name ELSE None

\* f"{gentoo_pkg_name} {conf_file}\n"
EnvLine(gentoo_pkg_name, conf_file) == gentoo_pkg_name \o " " \o conf_file \o "\n"

\* The file names a package.env directory holds: those of the mappings.
Filenames == {get_flag_mappings[i].filename : i \in 1..Len(get_flag_mappings)}

\* The directory with every file empty or missing.
EmptyEnv == [f \in Filenames |-> <<>>]

\* The state of one process_package_env_entries call: the files, the file
\* names written to, the lines appended, and whether an append raised.
\* The loop over get_flag_mappings(): failing is the set of file names
\* whose open(..., "a") raises IOError.
RECURSIVE AppendEntries(_, _, _, _, _)
AppendEntries(mappings, config, gentoo_pkg_name, failing, st) ==
    IF mappings = <<>> THEN [st EXCEPT !.returned = TRUE]
    ELSE LET mapping == mappings[1]
             stored == DictGet(config["autospec"], mapping.flag, BoolValue(FALSE))
             flag_value == IF mapping.invert THEN ~Truthy(stored) ELSE Truthy(stored)
             line == EnvLine(gentoo_pkg_name, mapping.conf_file)
         IN  IF ~flag_value
             THEN AppendEntries(Tail(mappings), config, gentoo_pkg_name, failing, st)
             ELSE IF mapping.filename \in failing
             THEN [st EXCEPT !.returned = FALSE, !.io_error = TRUE]
             ELSE AppendEntries(
                      Tail(mappings), config, gentoo_pkg_name, failing,
                      [st EXCEPT
                          !.env = DictSet(@, mapping.filename,
                                          Append(DictGet(@, mapping.filename, <<>>), line)),
                          !.written = @ \cup {mapping.filename},
                          !.appended = DictSet(@, mapping.filename,
                                               Append(DictGet(@, mapping.filename, <<>>), line))])

\* process_package_env_entries on the sections of one options.conf.
process_package_env_entries(sections, pkg_mapping, env, log, failing) ==
    LET config == parse_options_conf(sections)
        st == [env |-> env, written |-> {}, appended |-> log,
               returned |-> FALSE, io_error |-> FALSE]
    IN  IF config = <<>> \/ "package" \notin DOMAIN config \/ "autospec" \notin DOMAIN config
        THEN st
        ELSE LET clear_pkg_name == DictGet(config["package"], "name", "")
             IN  IF clear_pkg_name = "" THEN st
                 ELSE LET gentoo_pkg_name ==
                              get_gentoo_package_name(clear_pkg_name, pkg_mapping)
                      IN  IF gentoo_pkg_name = None THEN st
                          ELSE AppendEntries(get_flag_mappings, config,
                                             gentoo_pkg_name.val, failing, st)

\* clear_package_env_files that takes the flag names for the file names.
ClearedFilenames_FlagNames ==
    {get_flag_mappings[i].flag : i \in 1..Len(get_flag_mappings)}

\* filenames = set(mapping[1] for mapping in flag_mappings)
ClearedFilenames ==
    {get_flag_mappings[i].filename : i \in 1..Len(get_flag_mappings)}

\* The directory after open(file_path, "w") on each of the names.
Truncated(env, names) ==
    [f \in DOMAIN env \cup names |-> IF f \in names THEN <<>> ELSE env[f]]

\* The options.conf files of the model.
Conf(name, autospec) == ("package" :> ("name" :> name)) @@ ("autospec" :> autospec)

UseLtoValues == {"true", "False", "0", "1", "", "no"}

AutospecSets ==
    {<<>>} \cup {("use_lto" :> v) : v \in UseLtoValues}
          \cup {("use_lto" :> "true") @@ ("funroll-loops" :> "TRUE")}

ConfUniverse ==
    {Conf("bash", a) : a \in AutospecSets}
        \cup {Conf("ghost", ("use_lto" :> "true")),
              Conf("unknown", <<>>),
              ("package" :> ("name" :> "bash")),
              ("package" :> <<>>) @@ ("autospec" :> ("use_lto" :> "true"))}

RECURSIVE ConfListsUpTo(_)
ConfListsUpTo(n) ==
    IF n = 0 THEN {<<>>}
    ELSE LET shorter == ConfListsUpTo(n - 1)
         IN  shorter \cup {Append(s, c) : s \in shorter, c \in ConfUniverse}

\* What an earlier run over other repositories left in the directory.
StaleEnv ==
    [f \in Filenames |->
        IF f \in {"lto", "no-lto"} THEN <<EnvLine("sys-libs/zlib", f \o ".conf")>>
        ELSE <<>>]

\* main at its first statement.
InitOptions ==
    /\ options_conf_files \in ConfListsUpTo(MaxConfs)
    /\ package_env \in {EmptyEnv, StaleEnv}
    /\ opt_pc = "start"
    /\ opt_next = 1
    /\ opt_run = 1
    /\ opt_written = {}
    /\ opt_returned = None
    /\ opt_appended = EmptyEnv
    /\ opt_io_error = FALSE
    /\ MapperIdle /\ CloneIdle /\ FetchIdle

\* write_compiler_configs, load_package_mapping and find_options_conf_files:
\* main goes on, or logs the failure and calls sys.exit(1).
Prepare ==
    /\ opt_pc = "start"
    /\ \E succeeded \in BOOLEAN : opt_pc' = IF succeeded THEN "clear" ELSE "exited"
    /\ UNCHANGED <<options_conf_files, package_env, opt_next, opt_run, opt_written,
                   opt_returned, opt_appended, opt_io_error>>
    /\ UNCHANGED <<mapperVars, cloneVars, fetchVars>>

\* clear_package_env_files: every name is truncated, or one open raises
\* IOError after some of the others, in the order of the set, were
\* truncated, and main calls sys.exit(1).
ClearPackageEnv ==
    /\ opt_pc = "clear"
    /\ \/ /\ package_env' = Truncated(package_env, ClearedFilenames)
          /\ opt_pc' = "process"
       \/ \E bad \in ClearedFilenames :
             \E before \in SUBSET (ClearedFilenames \ {bad}) :
                 /\ package_env' = Truncated(package_env, before)
                 /\ opt_pc' = "exited"
    /\ UNCHANGED <<options_conf_files, opt_next, opt_run, opt_written,
                   opt_returned, opt_appended, opt_io_error>>
    /\ UNCHANGED <<mapperVars, cloneVars, fetchVars>>

\* One turn of "for options_conf_path in options_conf_files".
ProcessNext ==
    /\ opt_pc = "process"
    /\ opt_next <= Len(options_conf_files)
    /\ \E failing \in {{}} \cup {{f} : f \in Filenames} :
          LET st == process_package_env_entries(
                        options_conf_files[opt_next], PkgMapping,
                        package_env, opt_appended, failing)
          IN  /\ package_env' = st.env
              /\ opt_written' = st.written
              /\ opt_returned' = Some(st.returned)
              /\ opt_appended' = st.appended
              /\ opt_io_error' = (opt_io_error \/ st.io_error)
    /\ opt_next' = opt_next + 1
    /\ UNCHANGED <<options_conf_files, opt_pc, opt_run>>
    /\ UNCHANGED <<mapperVars, cloneVars, fetchVars>>

\* The loop is over: main logs the count and returns.
Finish ==
    /\ opt_pc = "process"
    /\ opt_next > Len(options_conf_files)
    /\ opt_pc' = "done"
    /\ UNCHANGED <<options_conf_files, package_env, opt_next, opt_run, opt_written,
                   opt_returned, opt_appended, opt_io_error>>
    /\ UNCHANGED <<mapperVars, cloneVars, fetchVars>>

\* except KeyboardInterrupt: sys.exit(130)
Interrupt ==
    /\ opt_pc \in {"start", "clear", "process"}
    /\ opt_pc' = "exited"
    /\ UNCHANGED <<options_conf_files, package_env, opt_next, opt_run, opt_written,
                   opt_returned, opt_appended, opt_io_error>>
    /\ UNCHANGED <<mapperVars, cloneVars, fetchVars>>

\* main is run again over the same repositories and mapping file.
RunAgain ==
    /\ opt_pc \in {"done", "exited"}
    /\ opt_run < MaxOptRuns
    /\ opt_run' = opt_run + 1
    /\ opt_pc' = "start"
    /\ opt_next' = 1
    /\ opt_written' = {}
    /\ opt_returned' = None
    /\ opt_appended' = EmptyEnv
    /\ opt_io_error' = FALSE
    /\ UNCHANGED <<options_conf_files, package_env>>
    /\ UNCHANGED <<mapperVars, cloneVars, fetchVars>>

NextOptions ==
    Prepare \/ ClearPackageEnv \/ ProcessNext \/ Finish \/ Interrupt \/ RunAgain

SpecOptions == InitOptions /\ [][NextOptions]_vars

----------------------------------------------------------------------------
(* clone_clearlinux_repos.py: the thread pool and the signal handler *)

\* The model follows the branches for Python 3.9 and later. A future is
\* its position in the order of submission; the pool's work queue holds the
\* futures no worker has taken yet. A worker thread takes an item from the
\* queue (work_queue.get) and then calls set_running_or_notify_cancel,
\* which starts the task unless the future was cancelled; the two are
\* separate steps of the worker thread. signal_handler runs in the main
\* thread, between two of its steps.

\* clone_repositories is given at most MaxPkgs package names.
MaxPkgs == 2

\* The pool has MaxWorkers worker threads.
MaxWorkers == 2

\* main runs at most MaxCloneRuns times over the same output directory.
MaxCloneRuns == 2

Workers == 1..MaxWorkers

\* filter_packages returns sorted names: the lists of the model are the
\* sorted lists of at most MaxPkgs of these names.
ClonePkgs == <<"bash", "curl", "tar", "zlib">>

RECURSIVE SortedListsUpTo(_, _)
SortedListsUpTo(n, from) ==
    IF n = 0 THEN {<<>>}
    ELSE {<<>>} \cup
         UNION {{<<ClonePkgs[i]>> \o s : s \in SortedListsUpTo(n - 1, i + 1)} :
                  i \in from..MaxPkgs}

PkgNameLists == SortedListsUpTo(MaxPkgs, 1)

\* How a clone_repository call can end when the directory does not exist:
\* os.makedirs raises OSError, a git command fails, or the clone succeeds.
CloneOutcomes == {"mkdir_failed", "git_failed", "cloned"}

\* clone_repository that removes the directory it created when git fails.
DirsAfterClone_CleansUp(dirs, pkg, outcome) ==
    IF outcome = "cloned" THEN dirs \cup {pkg} ELSE dirs

\* The package directories after a clone_repository call that got past
\* os.path.exists: os.makedirs created the directory unless it raised, and
\* no except clause removes it.
DirsAfterClone(dirs, pkg, outcome) ==
    IF outcome = "mkdir_failed" THEN dirs ELSE dirs \cup {pkg}

\* Future.cancel() on each future of the set: a pending future becomes
\* cancelled, the others stay as they are.
Cancelled(states, futures) ==
    [i \in 1..Len(states) |->
        IF i \in futures /\ states[i] = "PENDING" THEN "CANCELLED" ELSE states[i]]

\* main before clone_repositories: nothing cloned yet.
InitClone ==
    /\ pkg_names \in PkgNameLists
    /\ clone_pc = "start"
    /\ submitted = 0
    /\ collected = 0
    /\ future_state = <<>>
    /\ work_queue = <<>>
    /\ worker_item = [w \in Workers |-> 0]
    /\ futures_to_cancel = {}
    /\ executor = None
    /\ clone_results = <<>>
    /\ repo_dirs = {}
    /\ attempts = [p \in {pkg_names[i] : i \in 1..Len(pkg_names)} |-> <<>>]
    /\ clone_run = 1
    /\ handler_ran = FALSE
    /\ MapperIdle /\ FetchIdle /\ OptIdle

\* clone_repositories up to executor = ThreadPoolExecutor(...)
CreateExecutor ==
    /\ clone_pc = "start"
    /\ executor' = Some("running")
    /\ clone_pc' = IF pkg_names = <<>> THEN "shutdown" ELSE "submit"
    /\ UNCHANGED <<pkg_names, submitted, collected, future_state, work_queue,
                   worker_item, futures_to_cancel, clone_results, repo_dirs,
                   attempts, clone_run, handler_ran>>
    /\ UNCHANGED <<mapperVars, fetchVars, optVars>>

\* future = executor.submit(clone_repository, pkg_name, output_dir)
SubmitClone ==
    /\ clone_pc = "submit"
    /\ submitted' = submitted + 1
    /\ future_state' = Append(future_state, "PENDING")
    /\ work_queue' = Append(work_queue, submitted + 1)
    /\ clone_pc' = "register"
    /\ UNCHANGED <<pkg_names, collected, worker_item, futures_to_cancel, executor,
                   clone_results, repo_dirs, attempts, clone_run, handler_ran>>
    /\ UNCHANGED <<mapperVars, fetchVars, optVars>>

\* futures_map[future] = pkg_name; futures_to_cancel.add(future)
Register ==
    /\ clone_pc = "register"
    /\ futures_to_cancel' = futures_to_cancel \cup {submitted}
    /\ clone_pc' = IF submitted = Len(pkg_names) THEN "collect" ELSE "submit"
    /\ UNCHANGED <<pkg_names, submitted, collected, future_state, work_queue,
                   worker_item, executor, clone_results, repo_dirs, attempts,
                   clone_run, handler_ran>>
    /\ UNCHANGED <<mapperVars, fetchVars, optVars>>

\* A worker thread: work_item = work_queue.get(block=True)
WorkerTake(w) ==
    /\ worker_item[w] = 0
    /\ work_queue # <<>>
    /\ worker_item' = [worker_item EXCEPT ![w] = Head(work_queue)]
    /\ work_queue' = Tail(work_queue)
    /\ UNCHANGED <<pkg_names, clone_pc, submitted, collected, future_state,
                   futures_to_cancel, executor, clone_results, repo_dirs, attempts,
                   clone_run, handler_ran>>
    /\ UNCHANGED <<mapperVars, fetchVars, optVars>>

\* A worker thread: work_item.run() up to the call of the task. The task
\* starts unless set_running_or_notify_cancel finds the future cancelled.
WorkerStart(w) ==
    /\ worker_item[w] # 0
    /\ future_state[worker_item[w]] \in {"PENDING", "CANCELLED"}
    /\ IF future_state[worker_item[w]] = "PENDING"
       THEN /\ future_state' = [future_state EXCEPT ![worker_item[w]] = "RUNNING"]
            /\ UNCHANGED worker_item
       ELSE /\ worker_item' = [worker_item EXCEPT ![w] = 0]
            /\ UNCHANGED future_state
    /\ UNCHANGED <<pkg_names, clone_pc, submitted, collected, work_queue,
                   futures_to_cancel, executor, clone_results, repo_dirs, attempts,
                   clone_run, handler_ran>>
    /\ UNCHANGED <<mapperVars, fetchVars, optVars>>

\* A worker thread: clone_repository(pkg_name, output_dir) and
\* future.set_result.
WorkerRun(w) ==
    /\ worker_item[w] # 0
    /\ future_state[worker_item[w]] = "RUNNING"
    /\ LET pkg == pkg_names[worker_item[w]]
       IN  IF pkg \in repo_dirs
           THEN /\ attempts' = [attempts EXCEPT ![pkg] = Append(@, "skipped")]
                /\ UNCHANGED repo_dirs
           ELSE \E outcome \in CloneOutcomes :
                   /\ attempts' = [attempts EXCEPT ![pkg] = Append(@, outcome)]
                   /\ repo_dirs' = DirsAfterClone(repo_dirs, pkg, outcome)
    /\ future_state' = [future_state EXCEPT ![worker_item[w]] = "FINISHED"]
    /\ worker_item' = [worker_item EXCEPT ![w] = 0]
    /\ UNCHANGED <<pkg_names, clone_pc, submitted, collected, work_queue,
                   futures_to_cancel, executor, clone_results, clone_run, handler_ran>>
    /\ UNCHANGED <<mapperVars, fetchVars, optVars>>

\* One turn of "for future, pkg_name in futures_map.items()":
\* results[pkg_name] = future.result(), which waits for the future, and the
\* future leaves futures_to_cancel.
Collect ==
    /\ clone_pc = "collect"
    /\ future_state[collected + 1] = "FINISHED"
    /\ LET pkg == pkg_names[collected + 1]
       IN  clone_results' =
               DictSet(clone_results, pkg,
                       attempts[pkg][Len(attempts[pkg])] = "cloned")
    /\ futures_to_cancel' = futures_to_cancel \ {collected + 1}
    /\ collected' = collected + 1
    /\ clone_pc' = IF collected + 1 = Len(pkg_names) THEN "shutdown" ELSE "collect"
    /\ UNCHANGED <<pkg_names, submitted, future_state, work_queue, worker_item,
                   executor, repo_dirs, attempts, clone_run, handler_ran>>
    /\ UNCHANGED <<mapperVars, fetchVars, optVars>>

\* The finally clause, first part of executor.shutdown(wait=True,
\* cancel_futures=True): the futures still in the work queue are cancelled.
ShutdownDrain ==
    /\ clone_pc = "shutdown"
    /\ future_state' =
           Cancelled(future_state, {work_queue[i] : i \in 1..Len(work_queue)})
    /\ work_queue' = <<>>
    /\ executor' = Some("shutdown")
    /\ clone_pc' = "join"
    /\ UNCHANGED <<pkg_names, submitted, collected, worker_item, futures_to_cancel,
                   clone_results, repo_dirs, attempts, clone_run, handler_ran>>
    /\ UNCHANGED <<mapperVars, fetchVars, optVars>>

\* Second part: the worker threads are joined, then executor = None and
\* futures_to_cancel.clear(). clone_repositories returns, or SystemExit
\* goes on to end the program.
ShutdownJoin ==
    /\ clone_pc = "join"
    /\ \A w \in Workers : worker_item[w] = 0
    /\ executor' = None
    /\ futures_to_cancel' = {}
    /\ clone_pc' = IF handler_ran THEN "exited" ELSE "returned"
    /\ UNCHANGED <<pkg_names, submitted, collected, future_state, work_queue,
                   worker_item, clone_results, repo_dirs, attempts, clone_run,
                   handler_ran>>
    /\ UNCHANGED <<mapperVars, fetchVars, optVars>>

\* signal_handler on SIGINT or SIGTERM while the executor exists: the
\* pending futures of futures_to_cancel are cancelled, then
\* executor.shutdown(wait=False, cancel_futures=True) cancels the futures
\* in the work queue, then sys.exit(0). SystemExit leaves the loops through
\* the finally clauses: in the result loop the current future leaves
\* futures_to_cancel; raised inside the outer finally clause it skips the
\* join.
SignalHandler ==
    /\ ~handler_ran
    /\ clone_pc \in {"submit", "register", "collect", "shutdown", "join"}
    /\ handler_ran' = TRUE
    /\ future_state' =
           Cancelled(future_state,
                     futures_to_cancel
                         \cup {work_queue[i] : i \in 1..Len(work_queue)})
    /\ work_queue' = <<>>
    /\ IF clone_pc \in {"shutdown", "join"}
       THEN /\ clone_pc' = "exited"
            /\ executor' = None
            /\ futures_to_cancel' = {}
       ELSE /\ clone_pc' = "shutdown"
            /\ executor' = Some("shutdown")
            /\ futures_to_cancel' =
                   IF clone_pc = "collect"
                   THEN futures_to_cancel \ {collected + 1}
                   ELSE futures_to_cancel
    /\ UNCHANGED <<pkg_names, submitted, collected, worker_item, clone_results,
                   repo_dirs, attempts, clone_run>>
    /\ UNCHANGED <<mapperVars, fetchVars, optVars>>

\* The program has ended, its threads included; main is run again over the
\* same names and the same output directory.
CloneAgain ==
    /\ clone_pc \in {"returned", "exited"}
    /\ \A w \in Workers : worker_item[w] = 0
    /\ clone_run < MaxCloneRuns
    /\ clone_run' = clone_run + 1
    /\ clone_pc' = "start"
    /\ submitted' = 0
    /\ collected' = 0
    /\ future_state' = <<>>
    /\ work_queue' = <<>>
    /\ futures_to_cancel' = {}
    /\ executor' = None
    /\ clone_results' = <<>>
    /\ handler_ran' = FALSE
    /\ UNCHANGED <<pkg_names, worker_item, repo_dirs, attempts>>
    /\ UNCHANGED <<mapperVars, fetchVars, optVars>>

NextClone ==
    \/ CreateExecutor \/ SubmitClone \/ Register \/ Collect
    \/ ShutdownDrain \/ ShutdownJoin \/ SignalHandler \/ CloneAgain
    \/ \E w \in Workers : WorkerTake(w) \/ WorkerStart(w) \/ WorkerRun(w)

SpecClone == InitClone /\ [][NextClone]_vars

----------------------------------------------------------------------------
(* Vocabulary of the properties *)

\* A map_package call has returned.
Called == pkg_name # None

IsOverrideKey(name) == name \in DOMAIN MANUAL_PKG_OVERRIDES

\* path.split("/", 1)[0]: the category of a "category/name" path.
PathCategory(path) ==
    LET slashes == {i \in 1..Len(path) : SubSeq(path, i, i) = "/"}
        first == CHOOSE i \in slashes : \A j \in slashes : i <= j
    IN  SubSeq(path, 1, first - 1)

\* The categories of the catalog that hold the name in some letter case.
CategoriesHolding(name) ==
    {c \in DOMAIN category_to_pkgs :
        \E p \in category_to_pkgs[c] : Lower(p) = Lower(name)}

\* Those of them that are not excluded.
EligibleHolding(name) == CategoriesHolding(name) \ NON_OPTIMIZABLE_CATEGORIES

\* The name starts with the prefix of some rule of PREFIX_MAPPINGS.
HasPrefixRule(name) == MatchingRules(name) # {}

\* The set of the elements of a sequence.
Range(s) == {s[i] : i \in 1..Len(s)}

----------------------------------------------------------------------------
(* C1 *)

\* C1: for every name that is a key of MANUAL_PKG_OVERRIDES and every
\* catalog, map_package returns the override path as gentoo_match,
\* confidence 1.0 and all_matches holding exactly that path, whatever the
\* index holds for the name.
C1_OverrideWins ==
    (Called /\ IsOverrideKey(pkg_name.val)) =>
        result = [gentoo_match |-> Some(MANUAL_PKG_OVERRIDES[pkg_name.val]),
                  confidence |-> 1000,
                  all_matches |-> <<MANUAL_PKG_OVERRIDES[pkg_name.val]>>]

\* An override key was resolved while the index offers two eligible
\* categories for it.
C1_Witness ==
    /\ pkg_name = Some("xz")
    /\ Len(find_matching_categories(matcher, "xz")) >= 2
    /\ result.gentoo_match = Some("app-arch/xz-utils")

----------------------------------------------------------------------------
(* C2, C3 *)

\* The name and category the prefix rules give for the last name.
TransformedName == extract_package_info(pkg_name.val)[1]
RequiredCategory == extract_package_info(pkg_name.val)[2]

\* The last call resolved its name through a prefix rule: resolving the
\* name as given failed, a rule rewrote it and the result is a match.
ResolvedByRule ==
    /\ Called
    /\ try_map_package(pkg_name.val, matcher, None) = None
    /\ TransformedName # pkg_name.val
    /\ result # NoMatchResult

\* C2: a result reached through a transform rule is confined to the rule's
\* required category: gentoo_match is "<required category>/<spelling>", with
\* the spelling the catalog has there, all_matches holds only that path and
\* confidence is 0.8.
C2_RuleKeepsRequiredCategory ==
    ResolvedByRule =>
        /\ result.confidence = 800
        /\ result.gentoo_match # None
        /\ result.all_matches = <<result.gentoo_match.val>>
        /\ PathCategory(result.gentoo_match.val) = RequiredCategory.val
        /\ RequiredCategory.val \in DOMAIN category_to_pkgs
        /\ \E p \in category_to_pkgs[RequiredCategory.val] :
              /\ Lower(p) = Lower(TransformedName)
              /\ result.gentoo_match.val = PkgPath(RequiredCategory.val, p)

\* C3: a name that is no override key, has no direct match and starts with
\* a rule's prefix resolves to the no-match result when the transformed name
\* is not in the rule's required category of the catalog.
C3_RuleMissIsNoMatch ==
    ( /\ Called
      /\ ~IsOverrideKey(pkg_name.val)
      /\ EligibleHolding(pkg_name.val) = {}
      /\ HasPrefixRule(pkg_name.val)
      /\ RequiredCategory.val \notin CategoriesHolding(TransformedName) )
    => result = NoMatchResult

----------------------------------------------------------------------------
(* C4, C5 *)

\* C4: a name that is no override key and is held, in some letter case, by
\* exactly one eligible category resolves with confidence 0.8, also when
\* that category holds several spellings of it.
C4_OneCategoryConfidence ==
    ( /\ Called
      /\ ~IsOverrideKey(pkg_name.val)
      /\ Cardinality(EligibleHolding(pkg_name.val)) = 1 )
    => result.confidence = 800

\* The lowest rank among a set of categories.
LowestRank(cats) ==
    CHOOSE r \in {PriorityKey(c) : c \in cats} :
        \A c \in cats : r <= PriorityKey(c)

\* C5: a name that is no override key and is held by n >= 2 eligible
\* categories resolves with confidence round(1/n, 3), all_matches holding
\* one path per eligible category, and gentoo_match in a category of the
\* lowest priority rank among them.
C5_ManyCategories ==
    LET held == EligibleHolding(pkg_name.val)
        n == Cardinality(held)
    IN  ( /\ Called
          /\ ~IsOverrideKey(pkg_name.val)
          /\ n >= 2 )
        => /\ result.confidence = RoundThousandths(n)
           /\ Len(result.all_matches) = n
           /\ {PathCategory(p) : p \in Range(result.all_matches)} = held
           /\ result.gentoo_match # None
           /\ PathCategory(result.gentoo_match.val) \in held
           /\ PriorityKey(PathCategory(result.gentoo_match.val)) = LowestRank(held)

----------------------------------------------------------------------------
(* C6, C7, C8 *)

\* The categories the values of the override table name.
OverrideCategories ==
    {PathCategory(MANUAL_PKG_OVERRIDES[k]) : k \in DOMAIN MANUAL_PKG_OVERRIDES}

\* C6: no path of all_matches, and no gentoo_match, names a category of
\* NON_OPTIMIZABLE_CATEGORIES: not for a result from the index, not for one
\* reached through a rule, and not for any value of the override table.
C6_NoExcludedCategory ==
    /\ OverrideCategories \cap NON_OPTIMIZABLE_CATEGORIES = {}
    /\ Called =>
          /\ \A p \in Range(result.all_matches) :
                PathCategory(p) \notin NON_OPTIMIZABLE_CATEGORIES
          /\ result.gentoo_match # None =>
                PathCategory(result.gentoo_match.val) \notin NON_OPTIMIZABLE_CATEGORIES

\* A name held by an excluded and by an eligible category was resolved to
\* the eligible one.
C6_Witness ==
    /\ Called
    /\ ~IsOverrideKey(pkg_name.val)
    /\ CategoriesHolding(pkg_name.val) \cap NON_OPTIMIZABLE_CATEGORIES # {}
    /\ EligibleHolding(pkg_name.val) # {}
    /\ result.gentoo_match # None

\* C7: a result with empty all_matches has no gentoo_match and confidence 0,
\* and a gentoo_match is always one of all_matches.
C7_BestAmongMatches ==
    Called =>
        /\ result.all_matches = <<>> =>
              (result.gentoo_match = None /\ result.confidence = 0)
        /\ result.gentoo_match # None =>
              result.gentoo_match.val \in Range(result.all_matches)

\* A result from the index with several candidates.
C7_Witness ==
    /\ Called
    /\ ~IsOverrideKey(pkg_name.val)
    /\ Cardinality(Range(result.all_matches)) >= 2
    /\ result.gentoo_match # None

\* C8: a name that is no override key, is in no category of the catalog in
\* any letter case, and starts with no rule's prefix resolves to
\* {gentoo_match: null, confidence: 0.0, all_matches: []}.
C8_UnknownNameIsNoMatch ==
    ( /\ Called
      /\ ~IsOverrideKey(pkg_name.val)
      /\ CategoriesHolding(pkg_name.val) = {}
      /\ ~HasPrefixRule(pkg_name.val) )
    => result = NoMatchResult

\* Such a name was resolved against a catalog that is not empty.
C8_Witness ==
    /\ Called
    /\ ~IsOverrideKey(pkg_name.val)
    /\ CategoriesHolding(pkg_name.val) = {}
    /\ ~HasPrefixRule(pkg_name.val)
    /\ DOMAIN category_to_pkgs # {}
    /\ result = NoMatchResult

----------------------------------------------------------------------------
(* C9, C10 *)

\* C9: the result does not depend on the order in which the catalog is
\* enumerated: a PackageMatcher built from the same category -> package-set
\* dict in any other order of its categories and of the packages of each
\* category gives the same result (gentoo_match, confidence and all_matches
\* in the same order) for the name.
C9_OrderIndependent ==
    Called =>
        \A items \in IterationOrders(category_to_pkgs) :
            map_package(pkg_name.val, build_lookup_tables(items)) = result

\* The categories of a list that have its lowest priority rank.
LowestRanked(categories) ==
    {c \in Range(categories) : PriorityKey(c) = LowestRank(Range(categories))}

\* C10: when several eligible categories of a name share the lowest
\* priority rank, select_best_category picks the one that is smallest in
\* string order.
C10_TieBySmallestString ==
    \A lowercase_pkg \in DOMAIN matcher.pkg_to_eligible_categories :
        LET categories == matcher.pkg_to_eligible_categories[lowercase_pkg]
            tied == LowestRanked(categories)
        IN  Cardinality(tied) >= 2 =>
                \A c \in tied :
                    c # select_best_category(categories) =>
                        StrLess(select_best_category(categories), c)

----------------------------------------------------------------------------
(* C11 *)

\* The rank of every category CATEGORY_PRIORITY lists is below the rank
\* given to a category it does not list.
ListedOutrankUnlisted ==
    \A listed \in DOMAIN CATEGORY_PRIORITY :
        PriorityKey(listed) < DEFAULT_LOWEST_PRIORITY

\* C11: a category absent from CATEGORY_PRIORITY ranks strictly worse than
\* every category in it, so a name (no override key) held by listed and by
\* unlisted eligible categories gets its gentoo_match in a listed one.
C11_ListedBeatsUnlisted ==
    /\ ListedOutrankUnlisted
    /\ ( /\ Called
         /\ ~IsOverrideKey(pkg_name.val)
         /\ EligibleHolding(pkg_name.val) \cap DOMAIN CATEGORY_PRIORITY # {}
         /\ EligibleHolding(pkg_name.val) \ DOMAIN CATEGORY_PRIORITY # {} )
       => /\ result.gentoo_match # None
          /\ PathCategory(result.gentoo_match.val) \in DOMAIN CATEGORY_PRIORITY

\* Such a name was resolved with an unlisted category first in the index.
C11_Witness ==
    /\ Called
    /\ ~IsOverrideKey(pkg_name.val)
    /\ EligibleHolding(pkg_name.val) \cap DOMAIN CATEGORY_PRIORITY # {}
    /\ find_matching_categories(matcher, pkg_name.val) # <<>>
    /\ find_matching_categories(matcher, pkg_name.val)[1] \notin DOMAIN CATEGORY_PRIORITY
    /\ result.gentoo_match # None

----------------------------------------------------------------------------
(* C17, C18 *)

\* The paths "category/spelling" of the catalog entries that spell the name
\* in some letter case, over the given categories.
CatalogPaths(name, cats) ==
    UNION { {PkgPath(c, p) : p \in {q \in category_to_pkgs[c] : Lower(q) = Lower(name)}} :
            c \in cats \cap DOMAIN category_to_pkgs }

\* C17: the steps run in order and stop at the first success: a name that
\* is no override key and is held by an eligible category gets the direct
\* result, a path of the name itself, also when the name starts with a
\* rule's prefix and the transformed name is in the rule's required
\* category.
C17_DirectBeforeRules ==
    ( /\ Called
      /\ ~IsOverrideKey(pkg_name.val)
      /\ EligibleHolding(pkg_name.val) # {} )
    => /\ result.gentoo_match # None
       /\ result.gentoo_match.val
             \in CatalogPaths(pkg_name.val, EligibleHolding(pkg_name.val))
       /\ Range(result.all_matches)
             \subseteq CatalogPaths(pkg_name.val, EligibleHolding(pkg_name.val))

\* A name with a rule prefix resolved directly while the transformed name
\* was in the rule's required category.
C17_Witness ==
    /\ Called
    /\ ~IsOverrideKey(pkg_name.val)
    /\ EligibleHolding(pkg_name.val) # {}
    /\ HasPrefixRule(pkg_name.val)
    /\ RequiredCategory.val \in EligibleHolding(TransformedName)
    /\ result.gentoo_match # None

\* C18: a name that is no override key and is held only by non-optimizable
\* categories is not resolved directly: without a matching rule the result
\* is the no-match result, and with one it is what the rule's lookup of the
\* transformed name in the required category gives.
C18_ExcludedOnlyFallsThrough ==
    ( /\ Called
      /\ ~IsOverrideKey(pkg_name.val)
      /\ CategoriesHolding(pkg_name.val) # {}
      /\ EligibleHolding(pkg_name.val) = {} )
    => /\ ~HasPrefixRule(pkg_name.val) => result = NoMatchResult
       /\ result.gentoo_match # None =>
             /\ HasPrefixRule(pkg_name.val)
             /\ result.gentoo_match.val \notin
                   CatalogPaths(pkg_name.val, CategoriesHolding(pkg_name.val))

\* Such a name without a rule got the no-match result.
C18_Witness ==
    /\ Called
    /\ ~IsOverrideKey(pkg_name.val)
    /\ CategoriesHolding(pkg_name.val) # {}
    /\ EligibleHolding(pkg_name.val) = {}
    /\ ~HasPrefixRule(pkg_name.val)
    /\ result = NoMatchResult

\* Such a name with a rule was resolved through the rule.
C18_RuleWitness ==
    /\ Called
    /\ ~IsOverrideKey(pkg_name.val)
    /\ CategoriesHolding(pkg_name.val) # {}
    /\ EligibleHolding(pkg_name.val) = {}
    /\ HasPrefixRule(pkg_name.val)
    /\ result.gentoo_match # None

----------------------------------------------------------------------------
(* C16 *)

\* The name is no override key but differs from one only in letter case.
CaseVariantOfKey(name) ==
    /\ ~IsOverrideKey(name)
    /\ \E k \in DOMAIN MANUAL_PKG_OVERRIDES : Lower(k) = Lower(name)

\* C16: override keys are matched exactly.  A name that differs from a key
\* only in letter case is resolved through the index (a catalog path of the
\* name when an eligible category holds it, no match when none does and no
\* rule applies), never through the override table; the key itself gets
\* the override also when the catalog holds a case variant of it.
C16_OverrideKeysExact ==
    Called =>
        /\ CaseVariantOfKey(pkg_name.val) =>
              /\ result.confidence # 1000
              /\ EligibleHolding(pkg_name.val) # {} =>
                    /\ result.gentoo_match # None
                    /\ result.gentoo_match.val \in
                          CatalogPaths(pkg_name.val, EligibleHolding(pkg_name.val))
              /\ (EligibleHolding(pkg_name.val) = {} /\ ~HasPrefixRule(pkg_name.val))
                    => result = NoMatchResult
        /\ (IsOverrideKey(pkg_name.val) /\ CategoriesHolding(pkg_name.val) # {}) =>
              result.gentoo_match = Some(MANUAL_PKG_OVERRIDES[pkg_name.val])

\* "sdl" was resolved to the catalog's media-libs/sdl, not to the override
\* of "SDL".
C16_Witness ==
    /\ pkg_name = Some("sdl")
    /\ result.gentoo_match = Some("media-libs/sdl")

\* "SDL" was resolved to its override while the catalog held "sdl".
C16_KeyWitness ==
    /\ pkg_name = Some("SDL")
    /\ "media-libs" \in EligibleHolding("SDL")
    /\ result.gentoo_match = Some("media-libs/libsdl")

----------------------------------------------------------------------------
(* C20 *)

\* The first rule, in declared order, whose prefix starts the name.
FirstRule(name) ==
    PREFIX_MAPPINGS[CHOOSE k \in MatchingRules(name) :
                        \A j \in MatchingRules(name) : k <= j]

\* The name after one application of its first rule: the rewrite, when the
\* rule has one, followed by what remains after the prefix.
RewrittenOnce(name) ==
    LET rule == FirstRule(name)
        remainder == SubSeq(name, Len(rule.prefix) + 1, Len(name))
    IN  IF rule.transform = None \/ rule.transform.val = "" THEN remainder
        ELSE rule.transform.val \o remainder

\* The last name was not resolved as given, a rule applies to it, and the
\* rewritten name is neither the name itself nor an override key.
LookedUpRewritten ==
    /\ Called
    /\ ~IsOverrideKey(pkg_name.val)
    /\ EligibleHolding(pkg_name.val) = {}
    /\ HasPrefixRule(pkg_name.val)
    /\ RewrittenOnce(pkg_name.val) # pkg_name.val
    /\ ~IsOverrideKey(RewrittenOnce(pkg_name.val))

\* C20: one rule is applied per name and the rewrite is not repeated.  A
\* name that is not resolved as given is looked up as the name rewritten
\* once by its first rule (prefix removed, rewrite put in front when the
\* rule has one), in the rule's category: the result is a path of that
\* spelling there when the category holds it and no match otherwise,
\* whatever a second rule would make of the rewritten name.
C20_OneRuleOnce ==
    LookedUpRewritten =>
        LET once == RewrittenOnce(pkg_name.val)
            required == FirstRule(pkg_name.val).category
        IN  IF required \in EligibleHolding(once)
            THEN /\ result.gentoo_match # None
                 /\ result.gentoo_match.val \in CatalogPaths(once, {required})
                 /\ result.all_matches = <<result.gentoo_match.val>>
            ELSE result = NoMatchResult

\* 'pypi-zope.interface' found nothing although dev-python holds
\* 'zope-interface', what a second rule would make of 'zope.interface'.
C20_Witness ==
    /\ pkg_name = Some("pypi-zope.interface")
    /\ "dev-python" \in EligibleHolding("zope-interface")
    /\ "dev-python" \notin EligibleHolding("zope.interface")
    /\ result = NoMatchResult

\* 'pypi-zope.interface' was resolved as 'zope.interface' in dev-python.
C20_StripWitness ==
    /\ pkg_name = Some("pypi-zope.interface")
    /\ result.gentoo_match = Some("dev-python/zope.interface")

\* 'zope.interface' was resolved through its rewrite 'zope-interface'.
C20_RewriteWitness ==
    /\ pkg_name = Some("zope.interface")
    /\ EligibleHolding("zope.interface") = {}
    /\ result.gentoo_match = Some("dev-python/zope-interface")

----------------------------------------------------------------------------
(* C19 *)

\* The last rule of PREFIX_MAPPINGS, the one for 'pypi-zope.'.
LateRule == PREFIX_MAPPINGS[Len(PREFIX_MAPPINGS)]

\* C19: extract_package_info applies the first rule in declared order whose
\* prefix matches, also when a more specific rule comes later.  Every name
\* starting with 'pypi-zope.' comes back with only 'pypi-' removed and
\* category dev-python; every name some rule matches comes back as its
\* first matching rule rewrites it; and no name comes back as the
\* 'pypi-zope.' rule would rewrite it.
C19_FirstDeclaredRule ==
    rule_output # None =>
        /\ LateRule.prefix = "pypi-zope."
        /\ StartsWith(rule_input, "pypi-zope.") =>
              /\ rule_output.val =
                    <<SubSeq(rule_input, 6, Len(rule_input)), Some("dev-python")>>
              /\ rule_output.val[1] #
                    LateRule.transform.val
                        \o SubSeq(rule_input, Len(LateRule.prefix) + 1, Len(rule_input))
        /\ HasPrefixRule(rule_input) =>
              rule_output.val =
                  <<RewrittenOnce(rule_input), Some(FirstRule(rule_input).category)>>
        /\ ~HasPrefixRule(rule_input) => rule_output.val = <<rule_input, None>>

\* extract_package_info has returned for 'pypi-zope.interface'.
C19_Witness ==
    /\ rule_input = "pypi-zope.interface"
    /\ rule_output = Some(<<"zope.interface", Some("dev-python")>>)

----------------------------------------------------------------------------
(* C12 *)

\* The lines that hold the "/" between category and name.
WellFormed(lines) == {i \in 1..Len(lines) : Slashes(Strip(lines[i])) # {}}

\* The category -> package-set table of the well-formed lines alone.
TableOfWellFormed(lines) ==
    LET entry(i) == SplitOnce(Strip(lines[i]))
    IN  [c \in {entry(i)[1] : i \in WellFormed(lines)} |->
            {entry(i)[2] : i \in {j \in WellFormed(lines) : entry(j)[1] = c}}]

\* C12: load_gentoo_packages skips every line without the '/' separator,
\* the empty line too, and goes on: once an existing catalog file has been
\* loaded the table holds exactly the entries of its well-formed lines, and
\* the run has not failed unless the source file is missing.
C12_BadLinesSkipped ==
    (gentoo_file # None /\ pc # "load_gentoo") =>
        /\ pc = "failed" => clearlinux_file = None
        /\ pc # "failed" => category_to_pkgs = TableOfWellFormed(gentoo_file.val)

----------------------------------------------------------------------------
(* C13 *)

\* One of the two input files does not exist.
InputMissing == gentoo_file = None \/ clearlinux_file = None

\* C13: when the source file or the catalog file is missing the run ends in
\* a failure: it never gets past the two loads, the load of the missing
\* file is a step the run can take and it leads to the failed state, and
\* no step creates or changes the output file.
C13_MissingInputFails ==
    /\ [](InputMissing =>
            /\ pc \in {"load_gentoo", "load_clearlinux", "failed"}
            /\ pc # "failed" => ENABLED NextMain)
    /\ [][InputMissing =>
            /\ output_file' = output_file
            /\ (pc = "load_gentoo" /\ gentoo_file = None) => pc' = "failed"
            /\ (pc = "load_clearlinux" /\ clearlinux_file = None) => pc' = "failed"]_vars

\* The run failed on the missing source file, after the catalog was
\* loaded, and the old output is still there.
C13_Witness ==
    /\ gentoo_file # None
    /\ category_to_pkgs # <<>>
    /\ clearlinux_file = None
    /\ pc = "failed"
    /\ output_file = Some(OldOutput)

----------------------------------------------------------------------------
(* C14 *)

\* The distinct names of the source file.
SourceNamesOfFile == {Strip(clearlinux_file.val[i]) : i \in 1..Len(clearlinux_file.val)}

\* A written member value is a record of the three fields: gentoo_match a
\* string or null, confidence a number, all_matches an array of strings.
IsMatchRecord(value) ==
    /\ DOMAIN value = {"gentoo_match", "confidence", "all_matches"}
    /\ value.gentoo_match.json \in {"null", "string"}
    /\ value.confidence.json = "number"
    /\ value.all_matches.json = "array"
    /\ \A i \in 1..Len(value.all_matches.items) :
          value.all_matches.items[i].json = "string"

\* C14: after a successful run the written mapping has one record for each
\* distinct source name and no other key, every record has the fields
\* gentoo_match (string or null), confidence and all_matches, and the keys
\* are written in ascending order.
C14_OneSortedRecordPerName ==
    pc = "done" =>
        /\ output_file # None
        /\ LET written == output_file.val
           IN  /\ {written[i].key : i \in 1..Len(written)} = SourceNamesOfFile
               /\ Len(written) = Cardinality(SourceNamesOfFile)
               /\ \A i \in 1..Len(written) : IsMatchRecord(written[i].value)
               /\ \A i, j \in 1..Len(written) :
                     i < j => StrLess(written[i].key, written[j].key)

\* A run over a source file that names a package twice has written
\* three records.
C14_Witness ==
    /\ pc = "done"
    /\ Len(output_file.val) = 2
    /\ Len(clearlinux_file.val) = 3
    /\ \E i \in 1..2 : output_file.val[i].value.gentoo_match.json = "string"

----------------------------------------------------------------------------
(* C15 *)

\* The chunks put end to end.
RECURSIVE ChunksJoined(_)
ChunksJoined(parts) ==
    IF parts = <<>> THEN <<>> ELSE Head(parts) \o ChunksJoined(Tail(parts))

\* process_chunk run once over the whole package list.
SequentialMapping ==
    process_chunk(<<clear_linux_packages, gentoo_by_category,
                    all_gentoo_packages(gentoo_by_category)>>)

\* C15: in the chunked parallel mapper, for every number of cores, every
\* package list (repeated names too) and every order in which the chunk
\* futures complete, the chunks put end to end are the package list, what
\* has been merged so far agrees with the sequential mapping, and once
\* every future was merged mapping_results is the mapping process_chunk
\* gives for the whole list.
C15_ChunkedEqualsSequential ==
    par_pc \in {"collect", "done"} =>
        /\ ChunksJoined(chunks) = clear_linux_packages
        /\ \A name \in DOMAIN par_mapping_results :
              /\ name \in DOMAIN SequentialMapping
              /\ par_mapping_results[name] = SequentialMapping[name]
        /\ (pending = {}) => par_mapping_results = SequentialMapping

\* A list that names a matched package in its first and in its third
\* chunk was mapped in three chunks, the third one merged before the
\* others.
C15_Witness ==
    /\ par_pc = "collect"
    /\ Len(chunks) = 3
    /\ pending = {1, 2}
    /\ clear_linux_packages[1] = clear_linux_packages[3]
    /\ par_mapping_results[clear_linux_packages[3]].confidence = 800

----------------------------------------------------------------------------
(* C21 *)

\* The name the index was asked for in the last call: the name as given
\* when that resolves, else the name its prefix rule makes of it.
LookedUpName ==
    IF try_map_package(pkg_name.val, matcher, None) # None THEN pkg_name.val
    ELSE TransformedName

\* The last result came from the index, not from the override table.
IndexResult ==
    /\ Called
    /\ result # NoMatchResult
    /\ ~IsOverrideKey(LookedUpName)

\* C21: lookup is case-insensitive and keeps each category's spelling.  In
\* every result that is not an override, each all_matches entry is
\* "<category>/<spelling>" for a package the catalog literally holds in
\* that category, the spelling equal to the looked-up name under case
\* folding; gentoo_match is such an entry too.
C21_SpellingPerCategory ==
    IndexResult =>
        /\ Range(result.all_matches) \subseteq
               CatalogPaths(LookedUpName, DOMAIN category_to_pkgs)
        /\ result.gentoo_match.val \in
               CatalogPaths(LookedUpName, DOMAIN category_to_pkgs)

\* 'FOO' was looked up in a catalog that spells it 'Foo' in one category
\* and 'foo' in another, and each category answered with its own spelling.
C21_Witness ==
    /\ pkg_name = Some("FOO")
    /\ "dev-libs/Foo" \in Range(result.all_matches)
    /\ "dev-java/foo" \in Range(result.all_matches)

----------------------------------------------------------------------------
(* C26 *)

\* A list without a repeated element.
NoRepeats(s) == \A i, j \in 1..Len(s) : s[i] = s[j] => i = j

\* C26: for every catalog the eligible-category list the index holds for a
\* case-folded name has each category at most once, so that all_matches
\* never has a path twice and the confidence is counted over the distinct
\* eligible categories; also when one category holds two names that differ
\* only in letter case.
C26_EachCategoryOnce ==
    built =>
        /\ \A k \in DOMAIN matcher.pkg_to_eligible_categories :
              NoRepeats(matcher.pkg_to_eligible_categories[k])
        /\ Called =>
              /\ NoRepeats(result.all_matches)
              /\ (IndexResult /\ LookedUpName = pkg_name.val) =>
                    result.confidence =
                        calculate_confidence(
                            SortedKeys(EligibleHolding(pkg_name.val)))

----------------------------------------------------------------------------
(* C22 *)

\* The name of the last call is indexed, but only in categories that are
\* excluded from optimisation: the eligible-category table has no key for it.
OnlyInExcluded ==
    /\ Called
    /\ package_exists(matcher, pkg_name.val)
    /\ Lower(pkg_name.val) \notin DOMAIN matcher.pkg_to_eligible_categories

\* C22: the lookup index is read-only after construction: no map_package
\* call, whatever the name (present or absent, with or without a matching
\* category), changes any of the three tables of the PackageMatcher or
\* gives one of them a new key.
C22_IndexReadOnly ==
    [][built =>
          /\ matcher' = matcher
          /\ DOMAIN matcher'.pkg_case_by_category = DOMAIN matcher.pkg_case_by_category
          /\ DOMAIN matcher'.pkg_to_eligible_categories =
                 DOMAIN matcher.pkg_to_eligible_categories
          /\ matcher'.lowercase_pkg_names = matcher.lowercase_pkg_names]_vars

\* map_package was called with a name that only excluded categories hold,
\* with a name the index does not hold and with a name it resolved.
C22_Witness ==
    /\ OnlyInExcluded
    /\ result = NoMatchResult
    /\ \E c \in DOMAIN category_to_pkgs : c \notin NON_OPTIMIZABLE_CATEGORIES

----------------------------------------------------------------------------
(* C25 *)

\* The tables of m agree with each other.
TablesConsistent(m) ==
    /\ \A k \in DOMAIN m.pkg_to_eligible_categories :
          \A i \in 1..Len(m.pkg_to_eligible_categories[k]) :
              LET category == m.pkg_to_eligible_categories[k][i]
              IN  /\ category \notin NON_OPTIMIZABLE_CATEGORIES
                  /\ k \in DOMAIN m.pkg_case_by_category
                  /\ category \in DOMAIN m.pkg_case_by_category[k]
    /\ m.lowercase_pkg_names = DOMAIN m.pkg_case_by_category

\* try_map_package(name, m, required_category) reaches a category of
\* matching_categories whose category_specific_case is not truthy.
SpellingFailsIn(name, m, required_category) ==
    /\ find_manual_override(name) = None
    /\ package_exists(m, name)
    /\ LET found == find_matching_categories(m, name)
           matching_categories ==
               IF TruthyStr(required_category) THEN <<required_category.val>> ELSE found
       IN  /\ found # <<>>
           /\ TruthyStr(required_category) =>
                  \E i \in 1..Len(found) : found[i] = required_category.val
           /\ \E i \in 1..Len(matching_categories) :
                  ~TruthyStr(get_case_in_category(m, name, matching_categories[i]))

\* The last map_package call took that branch, for the name as given or
\* for the transformed name.
SpellingFailed ==
    /\ Called
    /\ \/ SpellingFailsIn(pkg_name.val, matcher, None)
       \/ /\ try_map_package(pkg_name.val, matcher, None) = None
          /\ TransformedName # pkg_name.val
          /\ SpellingFailsIn(TransformedName, matcher, RequiredCategory)

\* C25: after index construction from any catalog the tables are mutually
\* consistent (every category of an eligible-category list is not excluded
\* and has a spelling recorded, and lowercase_pkg_names is the key set of
\* pkg_case_by_category), and the branch of try_map_package for a failed
\* spelling lookup is never taken with a constructed matcher.
C25_SpellingBranchUnreachable ==
    built => TablesConsistent(matcher) /\ ~SpellingFailed

----------------------------------------------------------------------------
(* C23 *)

\* The categories of the sequence in which the spelling lookup for the
\* name succeeds.
WithSpelling(m, name, categories) ==
    SelectSeq(categories,
              LAMBDA c : TruthyStr(get_case_in_category(m, name, c)))

\* The last call looked its name up in the index as given, the index lists
\* eligible categories for it, the spelling lookup fails for one of them
\* and succeeds for another.
OneSpellingFails ==
    /\ Called
    /\ ~IsOverrideKey(pkg_name.val)
    /\ package_exists(matcher, pkg_name.val)
    /\ LET found == find_matching_categories(matcher, pkg_name.val)
       IN  /\ WithSpelling(matcher, pkg_name.val, found) # <<>>
           /\ WithSpelling(matcher, pkg_name.val, found) # found

----------------------------------------------------------------------------
(* C27 *)

\* An answer that get_clearlinux_packages treats as rate-limited: the
\* header X-RateLimit-Remaining is missing, as after a failed fetch, or
\* says that no call remains.
TreatedAsRateLimited(answer) ==
    \/ "X-RateLimit-Remaining" \notin DOMAIN answer.headers
    \/ answer.headers["X-RateLimit-Remaining"] = "0"

----------------------------------------------------------------------------
(* C28 *)

\* The options.conf of the last process_package_env_entries call.
LastConf == options_conf_files[opt_next - 1]

\* The autospec value of use_lto in it is truthy; an absent key is not.
UseLtoTruthy ==
    LET autospec == parse_options_conf(LastConf)["autospec"]
    IN  "use_lto" \in DOMAIN autospec /\ Truthy(autospec["use_lto"])

\* C28: for every options.conf that process_package_env_entries processes
\* with the result True, exactly one of the package.env files "lto" and
\* "no-lto" receives a line for the package: "lto" when the autospec value
\* of use_lto is truthy, "no-lto" when it is falsy or the key is absent.
C28_ExactlyOneLtoFile ==
    opt_returned = Some(TRUE) =>
        LET chosen == IF UseLtoTruthy THEN "lto" ELSE "no-lto"
            gentoo_pkg_name ==
                get_gentoo_package_name(LastConf["package"]["name"], PkgMapping).val
        IN  /\ opt_written \cap {"lto", "no-lto"} = {chosen}
            /\ package_env[chosen] # <<>>
            /\ package_env[chosen][Len(package_env[chosen])] =
                   gentoo_pkg_name \o " " \o chosen \o ".conf\n"

\* An options.conf with use_lto = 0 was processed with the result True:
\* the line went to "no-lto".
C28_Witness ==
    /\ opt_returned = Some(TRUE)
    /\ LastConf = Conf("bash", ("use_lto" :> "0"))
    /\ opt_written = {"no-lto"}
    /\ package_env["no-lto"] = <<"app-shells/bash no-lto.conf\n">>

----------------------------------------------------------------------------
(* C29 *)

\* The package.env files after the options.conf files were processed in
\* order, without an IOError, starting from the files env.
RECURSIVE ProcessedInOrder(_, _)
ProcessedInOrder(confs, env) ==
    IF confs = <<>> THEN env
    ELSE ProcessedInOrder(
             Tail(confs),
             process_package_env_entries(confs[1], PkgMapping, env, EmptyEnv, {}).env)

\* C29: in a run of main the package.env files are truncated before any
\* entry is appended and entries are appended only afterwards: during the
\* loop and after a completed run each file holds exactly the lines
\* appended by that run, and when no append failed these are the lines the
\* options.conf files give starting from empty files, whatever the files
\* held before, so that a second run over unchanged inputs leaves what the
\* first one left.
C29_FilesHoldThisRunOnly ==
    /\ opt_pc \in {"process", "done"} =>
          \A f \in Filenames : package_env[f] = opt_appended[f]
    /\ (opt_pc = "done" /\ ~opt_io_error) =>
          \A f \in Filenames :
              package_env[f] = ProcessedInOrder(options_conf_files, EmptyEnv)[f]

\* The second run over two options.conf files is complete: each of "lto"
\* and "no-lto" holds one line.
C29_Witness ==
    /\ opt_run = 2
    /\ opt_pc = "done"
    /\ ~opt_io_error
    /\ package_env["lto"] = <<"app-shells/bash lto.conf\n">>
    /\ package_env["no-lto"] = <<"app-shells/bash no-lto.conf\n">>

----------------------------------------------------------------------------
(* C24 *)

\* C24: in the repository cloner, once signal_handler has run, every clone
\* task that was submitted and had not started is cancelled, so that it
\* never starts afterwards: no future is left pending, whatever the point
\* of the submission loop or of the result loop the signal arrived at.
C24_HandlerCancelsPending ==
    handler_ran =>
        \A i \in 1..Len(future_state) : future_state[i] # "PENDING"

----------------------------------------------------------------------------
(* C30 *)

\* C30 as stated: clone_repository called for a package whose directory
\* exists ends as "skipped" and leaves the directories alone, the result
\* collected for a package is True only for a clone that succeeded, and
\* after any sequence of runs a package whose clone failed once is skipped
\* by every later run.
C30_FailedOnceSkippedLater ==
    /\ [](/\ \A p \in DOMAIN attempts :
                \A i, j \in 1..Len(attempts[p]) :
                    (i < j /\ attempts[p][i] \in {"mkdir_failed", "git_failed"})
                        => attempts[p][j] = "skipped"
          /\ \A p \in DOMAIN clone_results :
                clone_results[p] = (attempts[p][Len(attempts[p])] = "cloned"))
    /\ [][\A p \in DOMAIN attempts :
              (p \in repo_dirs /\ attempts'[p] # attempts[p]) =>
                  /\ attempts'[p] = Append(attempts[p], "skipped")
                  /\ repo_dirs' = repo_dirs]_vars

\* C30, amended: the same, but only a clone that failed after it had
\* created the directory, like one that succeeded or was skipped, makes
\* every later call for the package end as "skipped"; after a clone that
\* failed in os.makedirs no directory exists and the next run tries again.
C30_DirectoryMakesLaterRunsSkip ==
    /\ [](/\ \A p \in DOMAIN attempts :
                \A i, j \in 1..Len(attempts[p]) :
                    (i < j /\ attempts[p][i] \in {"git_failed", "cloned", "skipped"})
                        => attempts[p][j] = "skipped"
          /\ \A p \in DOMAIN attempts :
                (p \notin repo_dirs) =>
                    \A i \in 1..Len(attempts[p]) : attempts[p][i] = "mkdir_failed"
          /\ \A p \in DOMAIN clone_results :
                clone_results[p] = (attempts[p][Len(attempts[p])] = "cloned"))
    /\ [][\A p \in DOMAIN attempts :
              (p \in repo_dirs /\ attempts'[p] # attempts[p]) =>
                  /\ attempts'[p] = Append(attempts[p], "skipped")
                  /\ repo_dirs' = repo_dirs]_vars

\* The second run skipped a package whose clone failed in git in the
\* first run and reported it as not cloned.
C30_Witness ==
    /\ clone_run = 2
    /\ "bash" \in DOMAIN attempts
    /\ attempts["bash"] = <<"git_failed", "skipped">>
    /\ "bash" \in DOMAIN clone_results
    /\ clone_results["bash"] = FALSE

====
